---- MODULE Spec2Model ----
(***************************************************************************)
(* Model of the BNF counter-trend back-test engine                         *)
(* (src/bnf_backtest_strategy.py, class BNFCounterTrendBacktest):          *)
(*   - the portfolio simulator  _execute_bnf_portfolio_backtest            *)
(*   - the single-asset simulator _execute_bnf_backtest                    *)
(*   - the signal columns of calculate_bnf_indicators                      *)
(*                                                                         *)
(* Conventions.  Money is held in whole dollars.  Dates are day numbers,   *)
(* so that (a - b).days is a - b.  A share count is the quotient           *)
(* amount / price of the code, kept as the pair [num, den]; multiplying it *)
(* by a price gives num * price \div den dollars.  A missing value (NaN)   *)
(* is the number NaN; it occurs as a Close and as an indicator value of    *)
(* the single-asset data, never in the rows of the portfolio simulator.    *)
(***************************************************************************)
EXTENDS Integers, Sequences, FiniteSets, TLC

VARIABLES
    mode,               \* which part of the program this run executes
    initial_capital,    \* self.initial_capital
    strategy_mode,      \* self.strategy_mode
    \* ---- _execute_bnf_portfolio_backtest ----
    valid_stocks,       \* the participating symbols, in listed order
    stock_data,         \* per participating symbol, the dates of its series
    all_dates,          \* the simulated calendar, as far as it has been iterated
    daily_signals,      \* the rows collected for the current date
    total_cash,         \* the shared cash pool
    holdings,           \* the open positions, a dict in insertion order
    portfolio_history,  \* one snapshot per simulated date
    all_trades,         \* the portfolio ledger
    buy_candidates,     \* the admitted slice still to be iterated
    pc,                 \* position in the portfolio simulator
    \* ---- _execute_bnf_backtest ----
    data,               \* the rows of the series, as far as they have been iterated
    position,           \* 0 flat, 1 held
    cash,
    shares,
    trades,
    equity_curve,
    entry_date,
    entry_price,
    spc,                \* position in the single-asset simulator
    \* ---- run_multi_stock_backtest, and the data preparation of
    \* ---- run_bnf_portfolio_backtest (locals of the same names) ----
    stocks_to_test,     \* self.top50_stocks[:max_stocks]
    symbol_index,       \* 1-based position of the symbol the for loop is at
    retry_count,
    success,
    results,            \* the results of run_multi_stock_backtest
    failed_stocks,
    fetched,            \* the last download, <<>> before any
    result,             \* the last value run_single_backtest returned, <<>> for None
    calls,              \* per tested symbol, the downloads made for it
    interrupted,        \* a KeyboardInterrupt ended the for loop
    bpc,                \* position in the batch
    \* ---- BNFRealTimeMonitor (src/bnf_realtime_monitor.py) ----
    positions,          \* self.positions, per watched symbol
    last_alerts,        \* self.last_alerts, per (symbol, signal type)
    total_signals_sent,
    scan_signals,       \* the last value check_bnf_signals returned, <<>> for {}
    telegram_up,        \* the Telegram API answers every send with 200
    mpc,                \* position in the scan of one symbol
    is_monitoring,
    loops,              \* the _auto_monitoring_loop threads started so far
    main_pc,            \* position of the thread that starts and stops
    configured,         \* bot token and chat id are both set
    attempt,            \* the loop variable of send_telegram_alert
    posts,              \* the requests.post calls of the current send
    response,           \* the outcomes of the posts of the current send, in order
    parse_mode,         \* the argument parse_mode of the current send
    payload,            \* the payload of the posts: parse mode, text stripped
    returned,           \* what send_telegram_alert returned, <<>> while running
    tpc                 \* position in send_telegram_alert

pvars == <<valid_stocks, stock_data, all_dates, daily_signals, total_cash, holdings,
           portfolio_history, all_trades, buy_candidates, pc>>
svars == <<data, position, cash, shares, trades, equity_curve, entry_date,
           entry_price, spc>>
\* what the constructor sets and no run changes
cvars == <<mode, initial_capital, strategy_mode>>
bvars == <<stocks_to_test, symbol_index, retry_count, success, results,
           failed_stocks, fetched, result, calls, interrupted, bpc>>
mvars == <<positions, last_alerts, total_signals_sent, scan_signals, telegram_up,
           mpc,
           is_monitoring, loops, main_pc, configured, attempt, posts, response,
           parse_mode, payload, returned, tpc>>
vars == <<cvars, bvars, mvars, pvars, svars>>

(***************************************************************************)
(* Bounds of the model.                                                    *)
(***************************************************************************)
MaxDates == 2       \* simulated dates of a portfolio run
MaxRows == 3        \* rows of a single-asset series

Prices == {100, 110}
RsiValues == {25, 40}
Gaps == {1, 3, 4}   \* calendar days between consecutive portfolio dates
RowGaps == {1, 3}   \* calendar days between consecutive single-asset rows

\* Watchlists taken from top50_stocks: a small one whose rows take every
\* combination of values, the one of the run over the staggered calendar,
\* whose rows differ in price and flags, and one larger than max_positions
\* whose rows are block-shaped (the first k listed symbols signal a buy).
SmallWatchlist == <<"AAPL", "MSFT">>
StaggeredWatchlist == <<"GOOGL", "AMZN">>
LargeWatchlist == <<"AAPL", "MSFT", "GOOGL", "AMZN", "NVDA", "META", "TSLA",
                    "BRK-B", "AVGO", "LLY", "JPM">>

(***************************************************************************)
(* Program constants.                                                      *)
(***************************************************************************)
max_holding_days == 3
max_positions == 10
CashFloor == 1000
None == 0 - 1

\* a number outside the range of every price, ratio and indicator
NaN == 0 - 1000

\* mutant: the larger of the two ratios, max(0.2, 1.0 / max_positions)
InvestmentDivisor_Larger == IF 5 >= max_positions THEN max_positions ELSE 5

\* min(0.2, 1.0 / max_positions), as the divisor d of the ratio 1/d
InvestmentDivisor == IF 5 >= max_positions THEN 5 ELSE max_positions

(***************************************************************************)
(* Arithmetic and sequence helpers.                                        *)
(***************************************************************************)
IsNaN(x) == x = NaN

\* mutant: half of the amount is turned into shares
SharesOf_Half(amount, price) == [num |-> amount \div 2, den |-> price]

\* amount / price
SharesOf(amount, price) == [num |-> amount, den |-> price]

NoShares == [num |-> 0, den |-> 1]

\* shares * price
ValueOf(sh, price) ==
    IF IsNaN(price) THEN NaN ELSE (sh.num * price) \div sh.den

RECURSIVE SumSeq(_)
SumSeq(s) == IF s = <<>> THEN 0 ELSE Head(s) + SumSeq(Tail(s))

Last(s) == s[Len(s)]

\* Python's lst[:n]
SliceTo(s, n) ==
    IF n >= 0
    THEN SubSeq(s, 1, IF n < Len(s) THEN n ELSE Len(s))
    ELSE SubSeq(s, 1, IF Len(s) + n > 0 THEN Len(s) + n ELSE 0)

\* list.sort(key=rsi): stable, ascending
RECURSIVE InsertByRsi(_, _)
InsertByRsi(x, s) ==
    IF s = <<>> THEN <<x>>
    ELSE IF Head(s).rsi <= x.rsi
         THEN <<Head(s)>> \o InsertByRsi(x, Tail(s))
         ELSE <<x>> \o s

RECURSIVE SortByRsi(_)
SortByRsi(s) ==
    IF s = <<>> THEN <<>>
    ELSE InsertByRsi(Last(s), SortByRsi(SubSeq(s, 1, Len(s) - 1)))

HeldSymbols(h) == {h[k].symbol : k \in 1..Len(h)}

\* next((s['price'] for s in daily_signals if s['symbol'] == symbol), None)
PriceOf(signals, symbol) ==
    IF \E k \in 1..Len(signals) : signals[k].symbol = symbol
    THEN signals[CHOOSE k \in 1..Len(signals) :
                    /\ signals[k].symbol = symbol
                    /\ \A j \in 1..(k - 1) : signals[j].symbol # symbol].price
    ELSE None

\* "if current_price:"
Truthy(price) == price # None /\ price # 0


(***************************************************************************)
(* Input rows.  A row of daily_signals carries the fields the simulator    *)
(* reads: price (Close), buy_signal, sell_signal and rsi.                  *)
(***************************************************************************)
\* rows that differ in price and flags only
FlagRows == [price : Prices, buy_signal : BOOLEAN, sell_signal : BOOLEAN,
             rsi : {25}]

FreeRows == [price : Prices, buy_signal : BOOLEAN, sell_signal : BOOLEAN,
             rsi : RsiValues]

SignalsOf(stocks, rows) ==
    [k \in 1..Len(stocks) |->
        [symbol |-> stocks[k], price |-> rows[k].price,
         buy_signal |-> rows[k].buy_signal,
         sell_signal |-> rows[k].sell_signal, rsi |-> rows[k].rsi]]

\* the first k listed symbols signal a buy; the symbols whose index has
\* parity hot are the less oversold ones (no symbol has parity 2)
BlockRows(n, k, hot) ==
    [j \in 1..n |->
        [price |-> 100, buy_signal |-> (j <= k), sell_signal |-> FALSE,
         rsi |-> IF j % 2 = hot THEN 40 ELSE 25]]

\* none, all but two, or all of the listed symbols signal a buy
BlockSizes(n) == {0, n - 2, n}

DailyTables(stocks) ==
    IF stocks = SmallWatchlist
    THEN [1..Len(stocks) -> FreeRows]
    ELSE IF stocks = StaggeredWatchlist
    THEN [1..Len(stocks) -> FlagRows]
    ELSE {BlockRows(Len(stocks), k, hot) :
             k \in BlockSizes(Len(stocks)), hot \in 0..2}

(***************************************************************************)
(* The portfolio simulator, _execute_bnf_portfolio_backtest.               *)
(***************************************************************************)
InPortfolio == mode = "portfolio"

date == Last(all_dates)

IsHeld(h, symbol) == symbol \in HeldSymbols(h)

HoldingOf(h, symbol) ==
    h[CHOOSE k \in 1..Len(h) : h[k].symbol = symbol]

\* (date - entry_date).days
DaysHeld(d, holding) == d - holding.entry_date

\* mutant: the comparison is strict
TimeExitDue_Strict(d, signals, holding) ==
    /\ DaysHeld(d, holding) > max_holding_days
    /\ Truthy(PriceOf(signals, holding.symbol))

\* step 2: days_held >= self.max_holding_days, and a price to sell at
TimeExitDue(d, signals, holding) ==
    /\ DaysHeld(d, holding) >= max_holding_days
    /\ Truthy(PriceOf(signals, holding.symbol))

\* mutant: a sale yields a dollar less than shares * price
ExitTrade_Short(d, action, holding, price) ==
    [date |-> d, symbol |-> holding.symbol, action |-> action,
     price |-> price, shares |-> holding.shares,
     value |-> ValueOf(holding.shares, price) - 1,
     days_held |-> DaysHeld(d, holding)]

ExitTrade(d, action, holding, price) ==
    [date |-> d, symbol |-> holding.symbol, action |-> action,
     price |-> price, shares |-> holding.shares,
     value |-> ValueOf(holding.shares, price),
     days_held |-> DaysHeld(d, holding)]

\* the trades of step 2, in the order the holdings dict is iterated
TimeExitTrades(d, signals, h) ==
    LET Due(x) == TimeExitDue(d, signals, x)
        due == SelectSeq(h, Due)
    IN  [k \in 1..Len(due) |->
            ExitTrade(d, "SELL_TIME", due[k], PriceOf(signals, due[k].symbol))]

\* step 3: a sell signal for a symbol that is held
SellDue(h, signal) == IsHeld(h, signal.symbol) /\ signal.sell_signal

\* the trades of step 3, in the order daily_signals is iterated
SellSignalTrades(d, signals, h) ==
    LET Due(x) == SellDue(h, x)
        due == SelectSeq(signals, Due)
    IN  [k \in 1..Len(due) |->
            ExitTrade(d, "SELL_SIGNAL", HoldingOf(h, due[k].symbol),
                      due[k].price)]

RemoveSymbols(h, gone) ==
    LET Stays(x) == x.symbol \notin gone
    IN  SelectSeq(h, Stays)

\* mutant: the proceeds of an exit are not credited
TradeValues_Withheld(ts) == [k \in 1..Len(ts) |-> 0]

TradeValues(ts) == [k \in 1..Len(ts) |-> ts[k].value]

TradeSymbols(ts) == {ts[k].symbol : k \in 1..Len(ts)}

\* mutant: a symbol that is held may be bought again
BuyCandidates_AlsoHeld(signals, h) ==
    LET Wanted(x) == x.buy_signal
    IN  SortByRsi(SelectSeq(signals, Wanted))

\* mutant: the candidates are left in listed order
BuyCandidates_Unsorted(signals, h) ==
    LET Wanted(x) == x.buy_signal /\ ~IsHeld(h, x.symbol)
    IN  SelectSeq(signals, Wanted)

\* step 4: [s for s in daily_signals if s['buy_signal'] and
\*          s['symbol'] not in holdings], sorted by rsi
BuyCandidates(signals, h) ==
    LET Wanted(x) == x.buy_signal /\ ~IsHeld(h, x.symbol)
    IN  SortByRsi(SelectSeq(signals, Wanted))

\* mutant: one slot too many
AvailableSlots_OffByOne(h) == max_positions + 1 - Len(h)

\* max_positions - len(holdings)
AvailableSlots(h) == max_positions - Len(h)

\* mutant: the amount is sized on the capital the run started with
InvestmentAmount_Static(c) == initial_capital \div InvestmentDivisor

\* mutant: the cash pool is divided by the ratio
InvestmentAmount_Inverse(c) == c * InvestmentDivisor

\* total_cash * investment_ratio
InvestmentAmount(c) == c \div InvestmentDivisor

\* mutant: any positive amount is invested
AmountSufficient_NoFloor(amount) == amount > 0

\* "if investment_amount >= 1000"
AmountSufficient(amount) == amount >= CashFloor

\* holdings[symbol] = {...}
PutHolding(h, entry) ==
    IF IsHeld(h, entry.symbol)
    THEN [k \in 1..Len(h) |->
             IF h[k].symbol = entry.symbol THEN entry ELSE h[k]]
    ELSE Append(h, entry)

\* mutant: the positions are valued at their entry price
StockValue_AtEntry(signals, h) ==
    SumSeq([k \in 1..Len(h) |-> ValueOf(h[k].shares, h[k].entry_price)])

\* step 5: sum of shares * price over the holdings
StockValue(signals, h) ==
    SumSeq([k \in 1..Len(h) |->
               IF PriceOf(signals, h[k].symbol) = None THEN 0
               ELSE ValueOf(h[k].shares, PriceOf(signals, h[k].symbol))])

DailyTradeCount(ts, d) == Cardinality({k \in 1..Len(ts) : ts[k].date = d})

SnapshotOf(d, c, signals, h, ts) ==
    [date |-> d, total_value |-> c + StockValue(signals, h), cash |-> c,
     stock_value |-> StockValue(signals, h), positions |-> Len(h),
     daily_trades |-> DailyTradeCount(ts, d)]

Min(S) == CHOOSE m \in S : \A x \in S : m <= x

\* sorted(list(all_dates))
RECURSIVE Sorted(_)
Sorted(S) == IF S = {} THEN <<>> ELSE <<Min(S)>> \o Sorted(S \ {Min(S)})

\* mutant: the dates of the series are united
CommonDates_Union(indexes) == UNION {indexes[k] : k \in 1..Len(indexes)}

\* all_dates = set(first index), then .intersection(set(index)) per symbol
CommonDates(indexes) ==
    {d \in UNION {indexes[k] : k \in 1..Len(indexes)} :
        \A k \in 1..Len(indexes) : d \in indexes[k]}

\* the calendar of the run
Calendar == Sorted(CommonDates(stock_data))

\* step 1 of the next date of the calendar: collect every symbol's row
NextDate ==
    /\ InPortfolio /\ pc = "next_date"
    /\ Len(all_dates) < Len(Calendar)
    /\ all_dates' = Append(all_dates, Calendar[Len(all_dates) + 1])
    /\ \E rows \in DailyTables(valid_stocks) :
         daily_signals' = SignalsOf(valid_stocks, rows)
    /\ pc' = "time_exit"
    /\ UNCHANGED <<cvars, bvars, mvars, valid_stocks, stock_data, total_cash, holdings,
                   portfolio_history, all_trades, buy_candidates, svars>>

\* step 2: forced time exits
TimeExit ==
    /\ InPortfolio /\ pc = "time_exit"
    /\ LET sold == TimeExitTrades(date, daily_signals, holdings)
       IN  /\ total_cash' = total_cash + SumSeq(TradeValues(sold))
           /\ all_trades' = all_trades \o sold
           /\ holdings' = RemoveSymbols(holdings, TradeSymbols(sold))
    /\ pc' = "sell"
    /\ UNCHANGED <<cvars, bvars, mvars, valid_stocks, stock_data, all_dates,
                   daily_signals, portfolio_history, buy_candidates, svars>>

\* step 3: signal exits
SellSignals ==
    /\ InPortfolio /\ pc = "sell"
    /\ LET sold == SellSignalTrades(date, daily_signals, holdings)
       IN  /\ total_cash' = total_cash + SumSeq(TradeValues(sold))
           /\ all_trades' = all_trades \o sold
           /\ holdings' = RemoveSymbols(holdings, TradeSymbols(sold))
    /\ pc' = "select"
    /\ UNCHANGED <<cvars, bvars, mvars, valid_stocks, stock_data, all_dates,
                   daily_signals, portfolio_history, buy_candidates, svars>>

\* step 4: rank the candidates and cut the list to the free slots
SelectCandidates ==
    /\ InPortfolio /\ pc = "select"
    /\ buy_candidates' = SliceTo(BuyCandidates(daily_signals, holdings),
                                 AvailableSlots(holdings))
    /\ pc' = IF buy_candidates' = <<>> THEN "snapshot" ELSE "buy"
    /\ UNCHANGED <<cvars, bvars, mvars, valid_stocks, stock_data, all_dates,
                   daily_signals, total_cash, holdings, portfolio_history,
                   all_trades, svars>>

AfterCandidate == IF Tail(buy_candidates) = <<>> THEN "snapshot" ELSE "buy"

\* holdings[symbol] = {...} and the BUY trade of an admission
NewHolding(d, signal, amount) ==
    [symbol |-> signal.symbol, shares |-> SharesOf(amount, signal.price),
     entry_date |-> d, entry_price |-> signal.price]

BuyTradeOf(d, signal, amount) ==
    [date |-> d, symbol |-> signal.symbol, action |-> "BUY",
     price |-> signal.price, shares |-> SharesOf(amount, signal.price),
     value |-> amount]

\* "if total_cash < 1000: break"
BuyBreak ==
    /\ InPortfolio /\ pc = "buy"
    /\ total_cash < CashFloor
    /\ buy_candidates' = <<>>
    /\ pc' = "snapshot"
    /\ UNCHANGED <<cvars, bvars, mvars, valid_stocks, stock_data, all_dates,
                   daily_signals, total_cash, holdings, portfolio_history,
                   all_trades, svars>>

\* "if investment_amount >= 1000": the candidate is admitted
BuyAdmit ==
    /\ InPortfolio /\ pc = "buy"
    /\ total_cash >= CashFloor
    /\ AmountSufficient(InvestmentAmount(total_cash))
    /\ LET signal == Head(buy_candidates)
           investment_amount == InvestmentAmount(total_cash)
       IN  /\ total_cash' = total_cash - investment_amount
           /\ holdings' = PutHolding(holdings,
                  NewHolding(date, signal, investment_amount))
           /\ all_trades' = Append(all_trades,
                  BuyTradeOf(date, signal, investment_amount))
    /\ buy_candidates' = Tail(buy_candidates)
    /\ pc' = AfterCandidate
    /\ UNCHANGED <<cvars, bvars, mvars, valid_stocks, stock_data, all_dates,
                   daily_signals, portfolio_history, svars>>

\* the investment amount is below the floor: the candidate is passed over
BuySkip ==
    /\ InPortfolio /\ pc = "buy"
    /\ total_cash >= CashFloor
    /\ ~AmountSufficient(InvestmentAmount(total_cash))
    /\ buy_candidates' = Tail(buy_candidates)
    /\ pc' = AfterCandidate
    /\ UNCHANGED <<cvars, bvars, mvars, valid_stocks, stock_data, all_dates,
                   daily_signals, total_cash, holdings, portfolio_history,
                   all_trades, svars>>

\* the buy loop of step 4 as a whole: the cash and holdings it leaves and
\* the trades it appends
RECURSIVE BuyLoop(_, _, _, _)
BuyLoop(d, cands, c, h) ==
    IF cands = <<>> \/ c < CashFloor
    THEN [cash |-> c, holdings |-> h, trades |-> <<>>]
    ELSE IF AmountSufficient(InvestmentAmount(c))
         THEN LET amount == InvestmentAmount(c)
                  rest == BuyLoop(d, Tail(cands), c - amount,
                                  PutHolding(h, NewHolding(d, Head(cands),
                                                           amount)))
              IN  [rest EXCEPT !.trades =
                      <<BuyTradeOf(d, Head(cands), amount)>> \o @]
         ELSE BuyLoop(d, Tail(cands), c, h)

\* steps 2 to 5 of one date as a whole, from the rows collected in step 1
\* and the cash, holdings and ledger the date starts with
DayOutcome(d, signals, c, h, ts) ==
    LET timed == TimeExitTrades(d, signals, h)
        c1 == c + SumSeq(TradeValues(timed))
        h1 == RemoveSymbols(h, TradeSymbols(timed))
        sold == SellSignalTrades(d, signals, h1)
        c2 == c1 + SumSeq(TradeValues(sold))
        h2 == RemoveSymbols(h1, TradeSymbols(sold))
        bought == BuyLoop(d, SliceTo(BuyCandidates(signals, h2),
                                     AvailableSlots(h2)), c2, h2)
        ledger == ts \o timed \o sold \o bought.trades
    IN  [cash |-> bought.cash, holdings |-> bought.holdings,
         exits |-> timed \o sold, admissions |-> bought.trades,
         snapshot |-> SnapshotOf(d, bought.cash, signals, bought.holdings,
                                 ledger)]

\* step 5: the day's snapshot
RecordSnapshot ==
    /\ InPortfolio /\ pc = "snapshot"
    /\ portfolio_history' = Append(portfolio_history,
           SnapshotOf(date, total_cash, daily_signals, holdings, all_trades))
    /\ pc' = "next_date"
    /\ UNCHANGED <<cvars, bvars, mvars, valid_stocks, stock_data, all_dates,
                   daily_signals, total_cash, holdings, all_trades,
                   buy_candidates, svars>>

\* mutant: the final liquidation sells at the entry prices
FinalLiquidationValue_AtEntry(signals, h) ==
    SumSeq([k \in 1..Len(h) |-> ValueOf(h[k].shares, h[k].entry_price)])

\* the value added to total_cash by the final liquidation
FinalLiquidationValue(signals, h) ==
    SumSeq([k \in 1..Len(h) |-> ValueOf(h[k].shares,
                                        PriceOf(signals, h[k].symbol))])

\* what the final liquidation leaves in the holdings dict
FinalHoldings(h) == h

\* what the final liquidation appends to the ledger
FinalTrades(d, signals, h) == <<>>

\* after the last date: liquidate what is left and build the result
FinalSettlement ==
    /\ InPortfolio /\ pc = "next_date"
    /\ all_dates # <<>>
    /\ all_dates = Calendar
    /\ total_cash' = total_cash + FinalLiquidationValue(daily_signals, holdings)
    /\ holdings' = FinalHoldings(holdings)
    /\ all_trades' = all_trades \o FinalTrades(date, daily_signals, holdings)
    /\ pc' = "done"
    /\ UNCHANGED <<cvars, bvars, mvars, valid_stocks, stock_data, all_dates,
                   daily_signals, portfolio_history, buy_candidates, svars>>

\* "if not all_dates: return {}"
NoCommonDate ==
    /\ InPortfolio /\ pc = "next_date"
    /\ Calendar = <<>>
    /\ pc' = "empty"
    /\ UNCHANGED <<cvars, bvars, mvars, valid_stocks, stock_data, all_dates, daily_signals,
                   total_cash, holdings, portfolio_history, all_trades,
                   buy_candidates, svars>>

NextPortfolio ==
    \/ NoCommonDate
    \/ NextDate
    \/ TimeExit
    \/ SellSignals
    \/ SelectCandidates
    \/ BuyBreak
    \/ BuyAdmit
    \/ BuySkip
    \/ RecordSnapshot
    \/ FinalSettlement

IdlePortfolio ==
    /\ valid_stocks = <<>>
    /\ stock_data = <<>>
    /\ all_dates = <<>>
    /\ daily_signals = <<>>
    /\ total_cash = 0
    /\ holdings = <<>>
    /\ portfolio_history = <<>>
    /\ all_trades = <<>>
    /\ buy_candidates = <<>>
    /\ pc = "idle"

IdleBatch ==
    /\ stocks_to_test = <<>>
    /\ symbol_index = 0
    /\ retry_count = 0
    /\ success = FALSE
    /\ results = <<>>
    /\ failed_stocks = <<>>
    /\ fetched = <<>>
    /\ result = <<>>
    /\ calls = <<>>
    /\ interrupted = FALSE
    /\ bpc = "idle"

IdleMonitor ==
    /\ positions = <<>>
    /\ last_alerts = <<>>
    /\ total_signals_sent = 0
    /\ scan_signals = <<>>
    /\ telegram_up = FALSE
    /\ mpc = "idle"
    /\ is_monitoring = FALSE
    /\ loops = <<>>
    /\ main_pc = "idle"
    /\ configured = FALSE
    /\ attempt = 0
    /\ posts = 0
    /\ response = <<>>
    /\ parse_mode = "HTML"
    /\ payload = <<>>
    /\ returned = <<>>
    /\ tpc = "idle"

IdleSingle ==
    /\ data = <<>>
    /\ position = 0
    /\ cash = 0
    /\ shares = NoShares
    /\ trades = <<>>
    /\ equity_curve = <<>>
    /\ entry_date = None
    /\ entry_price = None
    /\ spc = "idle"

RangeOf(s) == {s[k] : k \in 1..Len(s)}

\* the calendars of n dates that start on day 0
RECURSIVE CalendarsOfLength(_)
CalendarsOfLength(n) ==
    IF n = 1 THEN {<<0>>}
    ELSE {Append(c, Last(c) + gap) : c \in CalendarsOfLength(n - 1),
                                     gap \in Gaps}

\* a calendar on which a position bought on the second date is two days old
\* when one bought on the first date comes due
StaggeredCalendar == <<0, 1, 3>>

Calendars == UNION {CalendarsOfLength(n) : n \in 1..MaxDates}

\* every series has exactly the dates of one calendar
EvenSeries(stocks) ==
    {[k \in 1..Len(stocks) |-> RangeOf(c)] : c \in Calendars}

\* two series that share every third day and each have a date the other
\* lacks (day 1, day 2), and two series without a common date
RaggedSeries ==
    {<<RangeOf(c) \cup {1}, RangeOf(c) \cup {2}>> :
        c \in {x \in Calendars : \A k \in 1..Len(x) : x[k] = 3 * (k - 1)}}
    \cup {<<{1}, {2}>>}

\* a run of the portfolio simulator: a watchlist and an initial capital
PortfolioRuns ==
    {[stocks |-> SmallWatchlist, capital |-> 500, ragged |-> FALSE,
      staggered |-> FALSE],
     [stocks |-> SmallWatchlist, capital |-> 10000, ragged |-> TRUE,
      staggered |-> FALSE],
     [stocks |-> StaggeredWatchlist, capital |-> 20000, ragged |-> FALSE,
      staggered |-> TRUE],
     [stocks |-> LargeWatchlist, capital |-> 100000, ragged |-> FALSE,
      staggered |-> FALSE]}

\* every series has the dates of the staggered calendar
StaggeredSeries(stocks) ==
    {[k \in 1..Len(stocks) |-> RangeOf(StaggeredCalendar)]}

InitPortfolio ==
    /\ mode = "portfolio"
    /\ strategy_mode = "balanced"
    /\ \E run \in PortfolioRuns :
         /\ initial_capital = run.capital
         /\ valid_stocks = run.stocks
         /\ total_cash = run.capital
         /\ stock_data \in
                IF run.staggered THEN StaggeredSeries(run.stocks)
                ELSE EvenSeries(run.stocks)
                         \cup (IF run.ragged THEN RaggedSeries ELSE {})
    /\ all_dates = <<>>
    /\ daily_signals = <<>>
    /\ holdings = <<>>
    /\ portfolio_history = <<>>
    /\ all_trades = <<>>
    /\ buy_candidates = <<>>
    /\ pc = "next_date"
    /\ IdleSingle
    /\ IdleBatch
    /\ IdleMonitor

SpecPortfolio == InitPortfolio /\ [][NextPortfolio]_vars

(***************************************************************************)
(* The signal columns, _setup_bnf_parameters and calculate_bnf_indicators. *)
(* RSI and Williams %R are whole numbers, Volume_Ratio and MA25_Ratio are  *)
(* held in hundredths (1.1 is 110).  A comparison with NaN is false.       *)
(***************************************************************************)
StrategyModes == {"aggressive", "balanced", "conservative"}

\* mutant: the balanced preset asks for no volume surge
SetupBnfParameters_LooseBalanced(m) ==
    IF m = "aggressive"
    THEN [rsi_oversold |-> 40, rsi_overbought |-> 60,
          williams_oversold |-> 0 - 70, williams_overbought |-> 0 - 30,
          volume_threshold |-> 110, ma_oversold_threshold |-> 85]
    ELSE IF m = "balanced"
    THEN [rsi_oversold |-> 35, rsi_overbought |-> 65,
          williams_oversold |-> 0 - 75, williams_overbought |-> 0 - 25,
          volume_threshold |-> 100, ma_oversold_threshold |-> 80]
    ELSE [rsi_oversold |-> 30, rsi_overbought |-> 70,
          williams_oversold |-> 0 - 80, williams_overbought |-> 0 - 20,
          volume_threshold |-> 130, ma_oversold_threshold |-> 75]

\* the thresholds _setup_bnf_parameters sets for a strategy mode
SetupBnfParameters(m) ==
    IF m = "aggressive"
    THEN [rsi_oversold |-> 40, rsi_overbought |-> 60,
          williams_oversold |-> 0 - 70, williams_overbought |-> 0 - 30,
          volume_threshold |-> 110, ma_oversold_threshold |-> 85]
    ELSE IF m = "balanced"
    THEN [rsi_oversold |-> 35, rsi_overbought |-> 65,
          williams_oversold |-> 0 - 75, williams_overbought |-> 0 - 25,
          volume_threshold |-> 120, ma_oversold_threshold |-> 80]
    ELSE [rsi_oversold |-> 30, rsi_overbought |-> 70,
          williams_oversold |-> 0 - 80, williams_overbought |-> 0 - 20,
          volume_threshold |-> 130, ma_oversold_threshold |-> 75]

\* x <= y, x >= y and x > y on floats
Le(x, y) == ~IsNaN(x) /\ ~IsNaN(y) /\ x <= y
Ge(x, y) == ~IsNaN(x) /\ ~IsNaN(y) /\ x >= y
Gt(x, y) == ~IsNaN(x) /\ ~IsNaN(y) /\ x > y

\* the two fixed multipliers of the signal columns
ReboundVolume == 110
MaOverbought == 110

\* data['MA25_Ratio'] <= self.ma_oversold_threshold
MA25_Oversold(self, x) == Le(x.MA25_Ratio, self.ma_oversold_threshold)

RSI_Oversold(self, x) == Le(x.RSI, self.rsi_oversold)
RSI_Overbought(self, x) == Ge(x.RSI, self.rsi_overbought)
Williams_Oversold(self, x) == Le(x.Williams_R, self.williams_oversold)
Williams_Overbought(self, x) == Ge(x.Williams_R, self.williams_overbought)

\* mutant: the rebound trigger asks for the preset's volume threshold
BNF_Buy_Signal_PresetVolume(self, x) ==
    \/ (RSI_Oversold(self, x) /\ Gt(x.Volume_Ratio, self.volume_threshold))
    \/ (Williams_Oversold(self, x)
            /\ Gt(x.Volume_Ratio, self.volume_threshold))
    \/ (/\ MA25_Oversold(self, x)
        /\ Gt(x.Close, x.PrevClose)
        /\ Gt(x.Volume_Ratio, self.volume_threshold))

\* data['BNF_Buy_Signal']
BNF_Buy_Signal(self, x) ==
    \/ (RSI_Oversold(self, x) /\ Gt(x.Volume_Ratio, self.volume_threshold))
    \/ (Williams_Oversold(self, x)
            /\ Gt(x.Volume_Ratio, self.volume_threshold))
    \/ (/\ MA25_Oversold(self, x)
        /\ Gt(x.Close, x.PrevClose)
        /\ Gt(x.Volume_Ratio, ReboundVolume))

\* mutant: the profit-taking trigger is left out
BNF_Sell_Signal_NoProfitTaking(self, x) ==
    \/ RSI_Overbought(self, x)
    \/ Williams_Overbought(self, x)

\* data['BNF_Sell_Signal']
BNF_Sell_Signal(self, x) ==
    \/ RSI_Overbought(self, x)
    \/ Williams_Overbought(self, x)
    \/ Ge(x.MA25_Ratio, MaOverbought)

\* the row of the frame calculate_bnf_indicators returns for the values x,
\* where x.PrevClose is data['Close'].shift(1)
IndicatorRow(self, d, x) ==
    [date |-> d, Close |-> x.Close, RSI |-> x.RSI,
     Williams_R |-> x.Williams_R, Volume_Ratio |-> x.Volume_Ratio,
     MA25_Ratio |-> x.MA25_Ratio,
     BNF_Buy_Signal |-> BNF_Buy_Signal(self, x),
     BNF_Sell_Signal |-> BNF_Sell_Signal(self, x)]

\* the thresholds of the run
Self == SetupBnfParameters(strategy_mode)

\* data['Close'].shift(1) at the row that follows the rows of frame
PrevCloseOf(frame) == IF frame = <<>> THEN NaN ELSE Last(frame).Close

Shifted(x, frame) ==
    [Close |-> x.Close, PrevClose |-> PrevCloseOf(frame), RSI |-> x.RSI,
     Williams_R |-> x.Williams_R, Volume_Ratio |-> x.Volume_Ratio,
     MA25_Ratio |-> x.MA25_Ratio]

\* the values a row is computed from; each set holds the thresholds of the
\* three presets, a value on either side of them and NaN
RsiLevels == {NaN, 30, 35, 40, 50, 60, 65, 70}
WilliamsLevels == {NaN, 0 - 80, 0 - 75, 0 - 70, 0 - 50, 0 - 30, 0 - 25, 0 - 20}
VolumeLevels == {NaN, 110, 120, 130, 140}
MaLevels == {75, 80, 85, 100, 110, 115}

IndicatorValues ==
    [Close : Prices, RSI : RsiLevels, Williams_R : WilliamsLevels,
     Volume_Ratio : VolumeLevels, MA25_Ratio : MaLevels]

\* a row on which no trigger fires, and a row whose Close is missing
QuietValues(c) ==
    [Close |-> c, RSI |-> 50, Williams_R |-> 0 - 50, Volume_Ratio |-> 110,
     MA25_Ratio |-> 100]

MissingClose ==
    [Close |-> NaN, RSI |-> NaN, Williams_R |-> NaN, Volume_Ratio |-> 110,
     MA25_Ratio |-> NaN]

PriorValues == {QuietValues(c) : c \in Prices} \cup {MissingClose}

InIndicators == mode = "indicators"

\* calculate_bnf_indicators, for the row that follows the rows of data
CalculateBnfIndicators ==
    /\ InIndicators
    /\ Len(data) = 1
    /\ \E x \in IndicatorValues :
         data' = Append(data, IndicatorRow(Self, 1, Shifted(x, data)))
    /\ UNCHANGED <<cvars, bvars, mvars, pvars, position, cash, shares, trades,
                   equity_curve, entry_date, entry_price, spc>>

(***************************************************************************)
(* The single-asset simulator, _execute_bnf_backtest.  A row of data       *)
(* carries its date (the index), Close and the two signal columns.         *)
(***************************************************************************)
InSingle == mode = "single"

Closes == Prices \cup {NaN}

\* RSI, Williams %R and Volume_Ratio of rows with both indicators defined:
\* no signal, a buy signal (RSI oversold on volume), a sell signal (RSI
\* overbought), and both (RSI oversold on volume, Williams %R overbought)
SignalCases ==
    {<<50, 0 - 50, 110>>, <<30, 0 - 50, 140>>, <<70, 0 - 50, 110>>,
     <<30, 0 - 20, 140>>}

DefinedValues ==
    {[Close |-> c, RSI |-> k[1], Williams_R |-> k[2], Volume_Ratio |-> k[3],
      MA25_Ratio |-> 100] : c \in Prices, k \in SignalCases}

\* rows with an undefined indicator: a flat stretch (RSI = 0/0 and
\* Williams %R = 0/0) with or without the Close still above its average,
\* and a zero high-low range after a drop (Williams %R = 0/0, RSI = 0)
UndefinedValues ==
    {[Close |-> 100, RSI |-> NaN, Williams_R |-> NaN, Volume_Ratio |-> 140,
      MA25_Ratio |-> 100],
     [Close |-> 100, RSI |-> NaN, Williams_R |-> NaN, Volume_Ratio |-> 110,
      MA25_Ratio |-> 115],
     [Close |-> 100, RSI |-> 0, Williams_R |-> NaN, Volume_Ratio |-> 140,
      MA25_Ratio |-> 100]}

SeriesValues == DefinedValues \cup UndefinedValues \cup {MissingClose}

\* the rows of data, as calculate_bnf_indicators leaves them
DataRows(d) == {IndicatorRow(Self, d, Shifted(x, data)) : x \in SeriesValues}

NextRowDates == IF data = <<>> THEN {0}
                ELSE {Last(data).date + gap : gap \in RowGaps}

\* pd.isna(current_price) or pd.isna(buy signal) or pd.isna(sell signal):
\* the signal columns are comparisons, which are never NaN
RowSkipped(row) == IsNaN(row.Close)

\* position == 1 and entry_date and days_held >= self.max_holding_days
ForceExit(row, pos, entered) ==
    pos = 1 /\ entered # None /\ row.date - entered >= max_holding_days

\* the "if" branch: a buy signal while flat, with cash to invest
BuyTaken(row, pos, c) == row.BNF_Buy_Signal /\ pos = 0 /\ c > 0

\* mutant: the exit branch does not ask for a position
SellTaken_AnyState(row, pos, c, entered) ==
    /\ ~BuyTaken(row, pos, c)
    /\ (row.BNF_Sell_Signal \/ ForceExit(row, pos, entered))

\* the "elif" branch: held, and a sell signal or the forced exit
SellTaken(row, pos, c, entered) ==
    /\ ~BuyTaken(row, pos, c)
    /\ pos = 1
    /\ (row.BNF_Sell_Signal \/ ForceExit(row, pos, entered))

\* 'SELL_TIME' if force_exit else 'SELL_SIGNAL'
SellAction(row, pos, entered) ==
    IF ForceExit(row, pos, entered) THEN "SELL_TIME" ELSE "SELL_SIGNAL"

EquityOf(row, c, sh, pos) ==
    [date |-> row.date, portfolio_value |-> c + ValueOf(sh, row.Close),
     cash |-> c, stock_value |-> ValueOf(sh, row.Close), position |-> pos]

\* a row with a NaN Close: "continue"
RowSkip ==
    /\ InSingle /\ spc = "loop"
    /\ Len(data) < MaxRows
    /\ \E d \in NextRowDates : \E row \in DataRows(d) :
         /\ RowSkipped(row)
         /\ data' = Append(data, row)
    /\ UNCHANGED <<cvars, bvars, mvars, pvars, position, cash, shares,
                   trades, equity_curve, entry_date, entry_price, spc>>

\* a row that buys: the whole cash balance is invested
RowBuy ==
    /\ InSingle /\ spc = "loop"
    /\ Len(data) < MaxRows
    /\ \E d \in NextRowDates : \E row \in DataRows(d) :
         /\ ~RowSkipped(row)
         /\ BuyTaken(row, position, cash)
         /\ data' = Append(data, row)
         /\ shares' = SharesOf(cash, row.Close)
         /\ position' = 1
         /\ entry_date' = row.date
         /\ entry_price' = row.Close
         /\ trades' = Append(trades,
                [date |-> row.date, action |-> "BUY", price |-> row.Close,
                 shares |-> shares', value |-> cash])
         /\ cash' = 0
         /\ equity_curve' = Append(equity_curve,
                                   EquityOf(row, cash', shares', position'))
    /\ UNCHANGED <<cvars, bvars, mvars, pvars, spc>>

\* a row that sells: on the sell signal or on the forced time exit
RowSell ==
    /\ InSingle /\ spc = "loop"
    /\ Len(data) < MaxRows
    /\ \E d \in NextRowDates : \E row \in DataRows(d) :
         /\ ~RowSkipped(row)
         /\ SellTaken(row, position, cash, entry_date)
         /\ data' = Append(data, row)
         /\ cash' = ValueOf(shares, row.Close)
         /\ trades' = Append(trades,
                [date |-> row.date,
                 action |-> SellAction(row, position, entry_date),
                 price |-> row.Close, shares |-> shares, value |-> cash',
                 entry_price |-> entry_price])
         /\ shares' = NoShares
         /\ position' = 0
         /\ entry_date' = None
         /\ entry_price' = None
         /\ equity_curve' = Append(equity_curve,
                                   EquityOf(row, cash', shares', position'))
    /\ UNCHANGED <<cvars, bvars, mvars, pvars, spc>>

\* a row on which neither branch is taken: only the equity curve grows
RowHold ==
    /\ InSingle /\ spc = "loop"
    /\ Len(data) < MaxRows
    /\ \E d \in NextRowDates : \E row \in DataRows(d) :
         /\ ~RowSkipped(row)
         /\ ~BuyTaken(row, position, cash)
         /\ ~SellTaken(row, position, cash, entry_date)
         /\ data' = Append(data, row)
         /\ equity_curve' = Append(equity_curve,
                                   EquityOf(row, cash, shares, position))
    /\ UNCHANGED <<cvars, bvars, mvars, pvars, position, cash, shares,
                   trades, entry_date, entry_price, spc>>

\* "if shares > 0": a position is left after the last row
LeftOpen(sh) == sh.num > 0

\* the trade the final liquidation appends
FinalTrade(lastrow, sh, entered_price) ==
    [date |-> lastrow.date, action |-> "SELL_FINAL", price |-> lastrow.Close,
     shares |-> sh, value |-> ValueOf(sh, lastrow.Close),
     entry_price |-> entered_price]

\* after the last row: liquidate the open position at data.iloc[-1]
FinalLiquidation ==
    /\ InSingle /\ spc = "loop"
    /\ data # <<>>
    /\ IF LeftOpen(shares)
       THEN /\ cash' = ValueOf(shares, Last(data).Close)
            /\ trades' = Append(trades,
                                FinalTrade(Last(data), shares, entry_price))
       ELSE UNCHANGED <<cash, trades>>
    /\ spc' = "done"
    /\ UNCHANGED <<cvars, bvars, mvars, pvars, data, position, shares,
                   equity_curve, entry_date, entry_price>>

NextSingle ==
    \/ RowSkip
    \/ RowBuy
    \/ RowSell
    \/ RowHold
    \/ FinalLiquidation

InitSingle ==
    /\ mode = "single"
    /\ strategy_mode = "balanced"
    /\ initial_capital = 10000
    /\ data = <<>>
    /\ position = 0
    /\ cash = initial_capital
    /\ shares = NoShares
    /\ trades = <<>>
    /\ equity_curve = <<>>
    /\ entry_date = None
    /\ entry_price = None
    /\ spc = "loop"
    /\ IdlePortfolio
    /\ IdleBatch
    /\ IdleMonitor

SpecSingle == InitSingle /\ [][NextSingle]_vars

\* what __init__ accepts besides the three presets and a positive capital:
\* any other name is given the thresholds of the else branch, and the
\* capital is stored as it comes
OtherModes == {"turbo"}
OtherCapitals == {0 - 100}

\* a single-asset run of an engine constructed with such arguments
InitMisconfigured ==
    /\ mode = "single"
    /\ \/ (strategy_mode \in OtherModes /\ initial_capital = 10000)
       \/ (strategy_mode = "balanced" /\ initial_capital \in OtherCapitals)
       \/ (strategy_mode \in OtherModes /\ initial_capital \in OtherCapitals)
    /\ data = <<>>
    /\ position = 0
    /\ cash = initial_capital
    /\ shares = NoShares
    /\ trades = <<>>
    /\ equity_curve = <<>>
    /\ entry_date = None
    /\ entry_price = None
    /\ spc = "loop"
    /\ IdlePortfolio
    /\ IdleBatch
    /\ IdleMonitor

SpecMisconfigured == InitMisconfigured /\ [][NextSingle]_vars

\* the signal columns of one row, under each preset
InitIndicators ==
    /\ mode = "indicators"
    /\ strategy_mode \in StrategyModes
    /\ initial_capital = 10000
    /\ \E x \in PriorValues :
         data = <<IndicatorRow(Self, 0, Shifted(x, <<>>))>>
    /\ position = 0
    /\ cash = 0
    /\ shares = NoShares
    /\ trades = <<>>
    /\ equity_curve = <<>>
    /\ entry_date = None
    /\ entry_price = None
    /\ spc = "idle"
    /\ IdlePortfolio
    /\ IdleBatch
    /\ IdleMonitor

NextIndicators == CalculateBnfIndicators

SpecIndicators == InitIndicators /\ [][NextIndicators]_vars

(***************************************************************************)
(* The metrics of a single-asset run, _calculate_bnf_metrics and           *)
(* _analyze_bnf_trades.  A percentage is held in hundredths of a percent.  *)
(***************************************************************************)
\* x / y * 100
Pct(x, y) == (x * 100 * 100) \div y

\* (final_cash - self.initial_capital) / self.initial_capital * 100
TotalReturn(final_cash) == Pct(final_cash - initial_capital, initial_capital)

\* mutant: the profit is taken relative to the exit price
ProfitPct_OverExit(buy_trade, trade) ==
    Pct(trade.price - buy_trade.price, trade.price)

\* (trade['price'] - buy_trade['price']) / buy_trade['price'] * 100
ProfitPct(buy_trade, trade) ==
    Pct(trade.price - buy_trade.price, buy_trade.price)

CompletedTrade(buy_trade, trade) ==
    [entry_date |-> buy_trade.date, exit_date |-> trade.date,
     entry_price |-> buy_trade.price, exit_price |-> trade.price,
     profit_pct |-> ProfitPct(buy_trade, trade),
     holding_days |-> trade.date - buy_trade.date,
     exit_reason |-> trade.action,
     is_winning |-> ProfitPct(buy_trade, trade) > 0]

\* the loop of _analyze_bnf_trades; pending is buy_trade, <<>> for None
RECURSIVE AnalyzeFrom(_, _)
AnalyzeFrom(ts, pending) ==
    IF ts = <<>> THEN <<>>
    ELSE IF Head(ts).action = "BUY"
         THEN AnalyzeFrom(Tail(ts), <<Head(ts)>>)
         ELSE IF pending # <<>> /\ Head(ts).action \in {"SELL_SIGNAL", "SELL_TIME"}
              THEN <<CompletedTrade(pending[1], Head(ts))>>
                       \o AnalyzeFrom(Tail(ts), <<>>)
              ELSE AnalyzeFrom(Tail(ts), pending)

AnalyzeBnfTrades(ts) == AnalyzeFrom(ts, <<>>)

(***************************************************************************)
(* run_single_backtest, run_multi_stock_backtest and the data preparation  *)
(* of run_bnf_portfolio_backtest.  A download is summarised by what the    *)
(* validation reads of it: whether the provider raised, the number of      *)
(* rows, the number of missing closes, the mean close in cents and whether *)
(* the indicator columns came out entirely undefined.                      *)
(***************************************************************************)
MaxStocks == 3      \* largest max_stocks of a batch

ema_long == 25

InBatch == mode = "batch"

InPrepare == mode = "prepare"

\* mutant: one more attempt per symbol
max_retries_Four == IF InPrepare THEN 2 ELSE 4

\* max_retries = 3 in run_multi_stock_backtest, 2 in the data preparation
max_retries == IF InPrepare THEN 2 ELSE 3

GoodData ==
    [raises |-> FALSE, len |-> 30, nan |-> 0, avg_price |-> 5000,
     rsi_nan |-> FALSE, williams_nan |-> FALSE]

\* what stock.history(...) followed by calculate_bnf_indicators can give: a
\* provider error, an empty, short or just long enough history, missing
\* closes at and above a tenth of the rows, a mean close at and beyond
\* $1 and $10,000, and indicator columns without a defined value
Fetches ==
    {GoodData, [GoodData EXCEPT !.raises = TRUE]}
    \cup {[GoodData EXCEPT !.len = n] : n \in {0, 24, 25}}
    \cup {[GoodData EXCEPT !.nan = n] : n \in {3, 4}}
    \cup {[GoodData EXCEPT !.avg_price = p] : p \in {99, 100, 1000000, 1000001}}
    \cup {[GoodData EXCEPT !.williams_nan = TRUE],
          [GoodData EXCEPT !.rsi_nan = TRUE, !.williams_nan = TRUE]}

\* data.empty
Empty(f) == f.len = 0

\* data['Close'].isna().sum() > len(data) * 0.1
PoorQuality(f) == 10 * f.nan > f.len

\* avg_price < 1 or avg_price > 10000
AbnormalPrice(f) == f.avg_price < 100 \/ f.avg_price > 1000000

Returned(value) == [raised |-> FALSE, value |-> value]

Raised == [raised |-> TRUE, value |-> <<>>]

\* mutant: a history shorter than ema_long is simulated
RunSingleBacktest_AnyLength(symbol, f) ==
    IF f.raises \/ Empty(f) \/ PoorQuality(f) \/ AbnormalPrice(f)
       \/ f.rsi_nan \/ f.williams_nan
    THEN Returned(<<>>)
    ELSE Returned(<<[symbol |-> symbol]>>)

\* run_single_backtest: what the call gives back to its caller, None being
\* <<>>; an exception of the download is caught by the except clause
RunSingleBacktest(symbol, f) ==
    IF f.raises THEN Returned(<<>>)
    ELSE IF Empty(f) THEN Returned(<<>>)
    ELSE IF f.len < ema_long THEN Returned(<<>>)
    ELSE IF PoorQuality(f) THEN Returned(<<>>)
    ELSE IF AbnormalPrice(f) THEN Returned(<<>>)
    ELSE IF f.rsi_nan \/ f.williams_nan THEN Returned(<<>>)
    ELSE Returned(<<[symbol |-> symbol]>>)

CurrentSymbol == stocks_to_test[symbol_index]

\* while retry_count < max_retries and not success
Retrying == retry_count < max_retries /\ ~success

\* the for loop moves to the next symbol, or ends
NextSymbol ==
    IF symbol_index < Len(stocks_to_test)
    THEN /\ symbol_index' = symbol_index + 1
         /\ retry_count' = 0
         /\ success' = FALSE
         /\ bpc' = "while"
    ELSE /\ bpc' = "summary"
         /\ UNCHANGED <<symbol_index, retry_count, success>>

\* one iteration of the while loop of run_multi_stock_backtest
MultiAttempt ==
    /\ InBatch /\ bpc = "while" /\ Retrying
    /\ \E f \in Fetches :
         LET call == RunSingleBacktest(CurrentSymbol, f) IN
         /\ fetched' = <<f>>
         /\ calls' = [calls EXCEPT ![symbol_index] = @ + 1]
         /\ IF call.raised
            THEN \* except Exception
                 /\ retry_count' = retry_count + 1
                 /\ UNCHANGED <<result, results, success>>
            ELSE /\ result' = call.value
                 /\ IF call.value # <<>>
                    THEN /\ results' = results \o call.value
                         /\ success' = TRUE
                         /\ UNCHANGED retry_count
                    ELSE /\ retry_count' = retry_count + 1
                         /\ UNCHANGED <<results, success>>
    /\ UNCHANGED <<cvars, mvars, pvars, svars, stocks_to_test, symbol_index,
                   failed_stocks, interrupted, bpc>>

\* Ctrl+C during an attempt: re-raised by the inner handler, caught by the
\* outer one, which goes on to the summary
MultiInterrupt ==
    /\ InBatch /\ bpc = "while" /\ Retrying
    /\ interrupted' = TRUE
    /\ bpc' = "summary"
    /\ UNCHANGED <<cvars, mvars, pvars, svars, stocks_to_test, symbol_index,
                   retry_count, success, results, failed_stocks, fetched,
                   result, calls>>

\* after the while loop: "if not success: failed_stocks.append(symbol)"
MultiEndSymbol ==
    /\ InBatch /\ bpc = "while" /\ ~Retrying
    /\ failed_stocks' = IF ~success THEN Append(failed_stocks, CurrentSymbol)
                        ELSE failed_stocks
    /\ NextSymbol
    /\ UNCHANGED <<cvars, mvars, pvars, svars, stocks_to_test, results, fetched,
                   result, calls, interrupted>>

\* the summary and the result table
MultiSummary ==
    /\ InBatch /\ bpc = "summary"
    /\ bpc' = IF results = <<>> THEN "empty" ELSE "done"
    /\ UNCHANGED <<cvars, mvars, pvars, svars, stocks_to_test, symbol_index,
                   retry_count, success, results, failed_stocks, fetched,
                   result, calls, interrupted>>

NextBatch ==
    \/ MultiAttempt
    \/ MultiInterrupt
    \/ MultiEndSymbol
    \/ MultiSummary

\* self.top50_stocks[:max_stocks]; the summary divides by the number of
\* symbols, so max_stocks is at least 1
StocksToTest(max_stocks) == SubSeq(LargeWatchlist, 1, max_stocks)

BatchStart ==
    /\ strategy_mode = "balanced"
    /\ initial_capital = 10000
    /\ \E max_stocks \in 1..MaxStocks :
         /\ stocks_to_test = StocksToTest(max_stocks)
         /\ calls = [k \in 1..max_stocks |-> 0]
    /\ symbol_index = 1
    /\ retry_count = 0
    /\ success = FALSE
    /\ results = <<>>
    /\ failed_stocks = <<>>
    /\ fetched = <<>>
    /\ result = <<>>
    /\ interrupted = FALSE
    /\ bpc = "while"
    /\ IdleSingle

InitBatch ==
    /\ mode = "batch"
    /\ BatchStart
    /\ IdlePortfolio
    /\ IdleMonitor

SpecBatch == InitBatch /\ [][NextBatch]_vars

\* the batch is sequential code: a step that can be taken is taken
SpecBatchFair == SpecBatch /\ WF_vars(NextBatch)

\* the checks of the data preparation that end the while loop by "break"
PrepareRejects(f) ==
    \/ Empty(f) \/ f.len < ema_long
    \/ PoorQuality(f)
    \/ f.rsi_nan

\* one iteration of the while loop of the data preparation
PrepareAttempt ==
    /\ InPrepare /\ bpc = "while" /\ Retrying
    /\ \E f \in Fetches :
         /\ fetched' = <<f>>
         /\ calls' = [calls EXCEPT ![symbol_index] = @ + 1]
         /\ IF f.raises
            THEN \* except Exception
                 /\ retry_count' = retry_count + 1
                 /\ failed_stocks' =
                        IF retry_count + 1 < max_retries THEN failed_stocks
                        ELSE Append(failed_stocks, CurrentSymbol)
                 /\ UNCHANGED <<stock_data, valid_stocks, success, bpc>>
            ELSE IF PrepareRejects(f)
            THEN \* break
                 /\ bpc' = "break"
                 /\ UNCHANGED <<stock_data, valid_stocks, success,
                                retry_count, failed_stocks>>
            ELSE /\ stock_data' = Append(stock_data, f)
                 /\ valid_stocks' = Append(valid_stocks, CurrentSymbol)
                 /\ success' = TRUE
                 /\ UNCHANGED <<retry_count, failed_stocks, bpc>>
    /\ UNCHANGED <<cvars, mvars, svars, stocks_to_test, symbol_index, results, result,
                   interrupted, all_dates, daily_signals, total_cash, holdings,
                   portfolio_history, all_trades, buy_candidates, pc>>

\* after the while loop:
\* "if not success and retry_count >= max_retries: failed_stocks.append(symbol)"
PrepareEndSymbol ==
    /\ InPrepare
    /\ bpc = "break" \/ (bpc = "while" /\ ~Retrying)
    /\ failed_stocks' = IF ~success /\ retry_count >= max_retries
                        THEN Append(failed_stocks, CurrentSymbol)
                        ELSE failed_stocks
    /\ NextSymbol
    /\ UNCHANGED <<cvars, mvars, pvars, svars, stocks_to_test, results, fetched,
                   result, calls, interrupted>>

\* "if not valid_stocks: return {}", else the simulator is called
PrepareDone ==
    /\ InPrepare /\ bpc = "summary"
    /\ bpc' = IF valid_stocks = <<>> THEN "empty" ELSE "done"
    /\ UNCHANGED <<cvars, mvars, pvars, svars, stocks_to_test, symbol_index,
                   retry_count, success, results, failed_stocks, fetched,
                   result, calls, interrupted>>

NextPrepare ==
    \/ PrepareAttempt
    \/ PrepareEndSymbol
    \/ PrepareDone

InitPrepare ==
    /\ mode = "prepare"
    /\ BatchStart
    /\ IdlePortfolio
    /\ IdleMonitor

SpecPrepare == InitPrepare /\ [][NextPrepare]_vars

(***************************************************************************)
(* The RSI column of calculate_bnf_indicators, computed from the closes.   *)
(* The division is the floating-point one: x / 0 is infinite for x > 0     *)
(* and undefined (NaN) for x = 0.  RSI is held in whole points, rounded    *)
(* down.                                                                   *)
(***************************************************************************)
RsiWindow == 3      \* rows of the rolling window (self.rsi_period)
MaxCloses == 5      \* rows of a series of closes

RsiCloses == {90, 100, 110}

InRsi == mode = "rsi"

\* delta = data['Close'].diff(); the first row has none
Delta(closes, k) == IF k = 1 THEN NaN ELSE closes[k] - closes[k - 1]

\* delta.where(delta > 0, 0): an undefined delta compares false and becomes 0
Gain(closes, k) ==
    IF ~IsNaN(Delta(closes, k)) /\ Delta(closes, k) > 0
    THEN Delta(closes, k) ELSE 0

\* -delta.where(delta < 0, 0)
Loss(closes, k) ==
    IF ~IsNaN(Delta(closes, k)) /\ Delta(closes, k) < 0
    THEN 0 - Delta(closes, k) ELSE 0

\* .rolling(window=self.rsi_period).mean() of the gains of the window that
\* ends at row k, as the sum over its n rows (the mean is the sum / n)
RECURSIVE GainOver(_, _, _)
GainOver(closes, k, n) ==
    IF n = 0 THEN 0 ELSE Gain(closes, k) + GainOver(closes, k - 1, n - 1)

\* the same of the losses
RECURSIVE LossOver(_, _, _)
LossOver(closes, k, n) ==
    IF n = 0 THEN 0 ELSE Loss(closes, k) + LossOver(closes, k - 1, n - 1)

GainSum(closes, k) == GainOver(closes, k, RsiWindow)

LossSum(closes, k) == LossOver(closes, k, RsiWindow)

\* rs = gain / loss; 100 - (100 / (1 + rs)), the rolling means being
\* undefined before the window is full
Rsi(closes, k) ==
    IF k < RsiWindow THEN NaN
    ELSE IF LossSum(closes, k) = 0
         THEN IF GainSum(closes, k) = 0 THEN NaN   \* 0 / 0
              ELSE 100                              \* rs infinite
    ELSE 100 - (100 * LossSum(closes, k))
                   \div (GainSum(closes, k) + LossSum(closes, k))

ClosesOf(rows) == [k \in 1..Len(rows) |-> rows[k].Close]

CalculateRsi ==
    /\ InRsi /\ spc = "indicators"
    /\ data' = [k \in 1..Len(data) |->
                   [data[k] EXCEPT !.RSI = Rsi(ClosesOf(data), k)]]
    /\ spc' = "done"
    /\ UNCHANGED <<cvars, bvars, mvars, pvars, position, cash, shares, trades,
                   equity_curve, entry_date, entry_price>>

InitRsi ==
    /\ mode = "rsi"
    /\ strategy_mode = "balanced"
    /\ initial_capital = 10000
    /\ \E n \in (RsiWindow + 1)..MaxCloses :
         \E closes \in [1..n -> RsiCloses] :
            data = [k \in 1..n |-> [Close |-> closes[k], RSI |-> NaN]]
    /\ position = 0
    /\ cash = 0
    /\ shares = NoShares
    /\ trades = <<>>
    /\ equity_curve = <<>>
    /\ entry_date = None
    /\ entry_price = None
    /\ spc = "indicators"
    /\ IdlePortfolio
    /\ IdleBatch
    /\ IdleMonitor

SpecRsi == InitRsi /\ [][CalculateRsi]_vars

\* A drawdown (peak - value) / peak * 100 is held as the exact fraction
\* num / den of a positive den; 0 is 0 / 1.
Fraction(num, den) == [num |-> num, den |-> den]

FracGt(x, y) == x.num * y.den > y.num * x.den

FracEq(x, y) == x.num * y.den = y.num * x.den

\* mutant: the peak stays at the first value
DrawdownFrom_FirstPeak(values, peak, max_drawdown) ==
    IF \A k \in 1..Len(values) : values[k] >= peak THEN max_drawdown
    ELSE Fraction(peak - Min(RangeOf(values)), peak)

\* the loop of _calculate_max_drawdown
RECURSIVE DrawdownFrom(_, _, _)
DrawdownFrom(values, peak, max_drawdown) ==
    IF values = <<>> THEN max_drawdown
    ELSE LET value == Head(values)
             new_peak == IF value > peak THEN value ELSE peak
             drawdown == Fraction(new_peak - value, new_peak)
         IN DrawdownFrom(Tail(values), new_peak,
                         IF FracGt(drawdown, max_drawdown) THEN drawdown
                         ELSE max_drawdown)

\* _calculate_max_drawdown(equity_curve)
CalculateMaxDrawdown(curve) ==
    IF curve = <<>> THEN Fraction(0, 1)
    ELSE LET portfolio_values ==
                 [k \in 1..Len(curve) |-> curve[k].portfolio_value]
         IN DrawdownFrom(portfolio_values, portfolio_values[1], Fraction(0, 1))

\* the drawdown loop of _calculate_bnf_portfolio_stats
RECURSIVE PortfolioDrawdownFrom(_, _, _)
PortfolioDrawdownFrom(values, peak, max_drawdown) ==
    IF values = <<>> THEN max_drawdown
    ELSE LET value == Head(values)
             new_peak == IF value > peak THEN value ELSE peak
             drawdown == Fraction(new_peak - value, new_peak)
         IN PortfolioDrawdownFrom(Tail(values), new_peak,
                                  IF FracGt(drawdown, max_drawdown) THEN drawdown
                                  ELSE max_drawdown)

\* max_drawdown of _calculate_bnf_portfolio_stats, which has no statistics
\* (<<>>) for an empty history
PortfolioMaxDrawdown(history) ==
    IF history = <<>> THEN <<>>
    ELSE LET values == [k \in 1..Len(history) |-> history[k].total_value]
         IN PortfolioDrawdownFrom(values, values[1], Fraction(0, 1))

(***************************************************************************)
(* The real-time monitor (src/bnf_realtime_monitor.py, class               *)
(* BNFRealTimeMonitor): the scan of one symbol, check_bnf_signals followed *)
(* by process_signals, and the passing of time between the steps.          *)
(*                                                                         *)
(* The code keeps instants (time.time(), datetime.now()) and only ever     *)
(* reads the time passed since them, so the model keeps that: an entry of  *)
(* last_alerts is the seconds since the alert was approved, as far as      *)
(* alert_cooldown; entry_time is the whole days since the entry,           *)
(* (datetime.now() - entry_time).days, as far as the three days the exit   *)
(* rule asks about.  The time of day of an entry is not kept: a lapse      *)
(* shorter than a day completes a day of a holding or does not.            *)
(***************************************************************************)
InMonitor == mode = "monitor"

\* the monitor's variables that a scan of a symbol leaves alone
tvars == <<is_monitoring, loops, main_pc, configured, attempt, posts, response,
           parse_mode, payload, returned, tpc>>

MonitorWatchlist == <<"AAPL", "MSFT">>   \* the head of self.watchlist

MaxSignals == 4     \* alerts delivered in a run

alert_cooldown == 3600

SecondsPerDay == 86400

\* the latest time exit of check_bnf_signals
ExitDays == 3

\* the early exit of check_bnf_signals: days held and RSI
EarlyExitDays == 2

EarlyExitRsi == 60

\* the seconds that pass between two steps of the monitor
Lapses == {alert_cooldown \div 2, SecondsPerDay}

SignalTypes == {"buy", "sell"}

AlertKeys == RangeOf(MonitorWatchlist) \X SignalTypes

\* self.positions.get(symbol, {}) of a symbol without position
NoPosition == [status |-> "none", entry_price |-> None, entry_time |-> None]

\* get_position_status
GetPositionStatus(symbol) == positions[symbol].status

\* update_position, on the dict pos
UpdatePosition(pos, symbol, status, price) ==
    IF status = "holding" /\ Truthy(price)
    THEN [pos EXCEPT ![symbol] = [status |-> "holding", entry_price |-> price,
                                  entry_time |-> 0]]
    ELSE IF status = "none"
         THEN [pos EXCEPT ![symbol] = NoPosition]
         ELSE [pos EXCEPT ![symbol].status = status]

\* the last row of the series with its indicator columns; an RSI at or over
\* rsi_overbought carries the sell flag (calculate_bnf_indicators)
LatestRows ==
    {row \in [Close : {100}, RSI : {50, 60, 70},
              BNF_Buy_Signal : BOOLEAN, BNF_Sell_Signal : BOOLEAN] :
        row.RSI >= 65 => row.BNF_Sell_Signal}

\* what check_bnf_signals gets for a symbol: no data, fewer than 50 rows, an
\* exception on the way, or a series with its columns that ends in the row
\* latest
Feeds ==
    {[outcome |-> "ok", latest |-> row] : row \in LatestRows}
    \cup {[outcome |-> o,
           latest |-> [Close |-> None, RSI |-> None, BNF_Buy_Signal |-> FALSE,
                       BNF_Sell_Signal |-> FALSE]] :
             o \in {"none", "short", "raised"}}

\* mutant: the exit rule without its three-day clause
ExitRule_NoTimeExit(latest, days_held) ==
    \/ latest.BNF_Sell_Signal
    \/ (days_held >= EarlyExitDays /\ latest.RSI >= EarlyExitRsi)

\* the exit rule of check_bnf_signals for a position with an entry time
ExitRule(latest, days_held) ==
    \/ latest.BNF_Sell_Signal
    \/ days_held >= ExitDays
    \/ (days_held >= EarlyExitDays /\ latest.RSI >= EarlyExitRsi)

\* the thresholds __init__ of the monitor sets
MonitorParameters ==
    [rsi_oversold |-> 35, rsi_overbought |-> 65,
     williams_oversold |-> 0 - 75, williams_overbought |-> 0 - 25,
     volume_threshold |-> 120, ma_oversold_threshold |-> 80]

\* data['BNF_Buy_Signal'] of the monitor's calculate_bnf_indicators, where
\* x.PrevClose is data['Close'].shift(1)
MonitorBuySignal(x) ==
    \/ (Le(x.RSI, MonitorParameters.rsi_oversold)
            /\ Gt(x.Volume_Ratio, MonitorParameters.volume_threshold))
    \/ (Le(x.Williams_R, MonitorParameters.williams_oversold)
            /\ Gt(x.Volume_Ratio, MonitorParameters.volume_threshold))
    \/ (/\ Le(x.MA25_Ratio, MonitorParameters.ma_oversold_threshold)
        /\ Gt(x.Close, x.PrevClose)
        /\ Gt(x.Volume_Ratio, 110))

\* data['BNF_Sell_Signal'] of the monitor's calculate_bnf_indicators
MonitorSellSignal(x) ==
    \/ Ge(x.RSI, MonitorParameters.rsi_overbought)
    \/ Ge(x.Williams_R, MonitorParameters.williams_overbought)
    \/ Ge(x.MA25_Ratio, 110)

\* the exit decision of the back-test for a held position: the sell flag of
\* the row, or force_exit = days_held >= self.max_holding_days
BacktestExit(row, days_held) ==
    row.BNF_Sell_Signal \/ days_held >= max_holding_days

\* mutant: the buy flag of the row is reported whatever the position
CheckBnfSignals_AnyPosition(symbol, feed) ==
    IF feed.outcome # "ok" THEN <<>>
    ELSE LET latest == feed.latest
             current_position == GetPositionStatus(symbol)
             entry_time == positions[symbol].entry_time
         IN <<[symbol |-> symbol, price |-> latest.Close, rsi |-> latest.RSI,
               buy_signal |-> latest.BNF_Buy_Signal,
               sell_signal |-> IF current_position = "holding" /\ entry_time # None
                               THEN ExitRule(latest, entry_time)
                               ELSE FALSE,
               position_status |-> current_position]>>

\* the dict check_bnf_signals returns for the symbol; <<>> is {}
CheckBnfSignals(symbol, feed) ==
    IF feed.outcome # "ok" THEN <<>>
    ELSE LET latest == feed.latest
             current_position == GetPositionStatus(symbol)
             entry_time == positions[symbol].entry_time
             buy_signal == IF current_position = "none"
                           THEN latest.BNF_Buy_Signal
                           ELSE FALSE
             sell_signal == IF current_position = "holding" /\ entry_time # None
                            THEN ExitRule(latest, entry_time)
                            ELSE FALSE
         IN <<[symbol |-> symbol, price |-> latest.Close, rsi |-> latest.RSI,
               buy_signal |-> buy_signal, sell_signal |-> sell_signal,
               position_status |-> current_position]>>

\* mutant: half the cooldown is enough
ShouldSendAlert_HalfWindow(alerts, key) ==
    ~(alerts[key] # None /\ 2 * alerts[key] < alert_cooldown)

\* should_send_alert: the key is absent, or its cooldown has run out
ShouldSendAlert(alerts, key) ==
    ~(alerts[key] # None /\ alerts[key] < alert_cooldown)

\* mutant: the position follows the approval of the alert, delivered or not
AlertStep_OnApproval(st, sig, signal_type, delivered) ==
    LET key == <<sig.symbol, signal_type>>
        flag == IF signal_type = "buy" THEN sig.buy_signal ELSE sig.sell_signal
    IN IF flag /\ ShouldSendAlert(st.last_alerts, key)
       THEN LET moved == [st EXCEPT
                            !.last_alerts[key] = 0,
                            !.positions =
                                IF signal_type = "buy"
                                THEN UpdatePosition(@, sig.symbol, "holding", sig.price)
                                ELSE UpdatePosition(@, sig.symbol, "none", None)]
            IN IF delivered
               THEN [moved EXCEPT !.total_signals_sent = @ + 1,
                                  !.alert_sent = TRUE]
               ELSE moved
       ELSE st

\* one of the two if statements of process_signals, on the state st of the
\* monitor: the flag, the cooldown (which stamps the key when it approves),
\* the send, and on delivery the counter and the position
AlertStep(st, sig, signal_type, delivered) ==
    LET key == <<sig.symbol, signal_type>>
        flag == IF signal_type = "buy" THEN sig.buy_signal ELSE sig.sell_signal
    IN IF flag /\ ShouldSendAlert(st.last_alerts, key)
       THEN LET stamped == [st EXCEPT !.last_alerts[key] = 0]
            IN IF delivered
               THEN [stamped EXCEPT
                        !.total_signals_sent = @ + 1,
                        !.positions =
                            IF signal_type = "buy"
                            THEN UpdatePosition(@, sig.symbol, "holding", sig.price)
                            ELSE UpdatePosition(@, sig.symbol, "none", None),
                        !.alert_sent = TRUE]
               ELSE stamped
       ELSE st

\* what send_telegram_alert can return to process_signals
SendResults == IF telegram_up THEN {TRUE} ELSE BOOLEAN

Holding == {s \in RangeOf(MonitorWatchlist) : positions[s].status = "holding"}

\* scan_single_stock, first half: signals = self.check_bnf_signals(symbol).
\* A symbol without position is looked at while the run has alerts left
\* for its entry and exit and for the exits of the positions held.
ScanCheck(symbol, feed) ==
    /\ InMonitor /\ mpc = "idle"
    /\ positions[symbol].status = "none" =>
           total_signals_sent + Cardinality(Holding) + 2 <= MaxSignals
    /\ scan_signals' = CheckBnfSignals(symbol, feed)
    /\ mpc' = "checked"
    /\ UNCHANGED <<positions, last_alerts, total_signals_sent, telegram_up>>
    /\ UNCHANGED <<cvars, bvars, pvars, svars, tvars>>

\* the state process_signals leaves, the buy alert first, the sell alert after
ProcessSignalsFrom(sig, buy_delivered, sell_delivered) ==
    AlertStep(AlertStep([positions |-> positions, last_alerts |-> last_alerts,
                         total_signals_sent |-> total_signals_sent,
                         alert_sent |-> FALSE],
                        sig, "buy", buy_delivered),
              sig, "sell", sell_delivered)

\* scan_single_stock, second half: if signals: self.process_signals(signals)
ProcessSignals ==
    /\ InMonitor /\ mpc = "checked"
    /\ IF scan_signals = <<>>
       THEN UNCHANGED <<positions, last_alerts, total_signals_sent>>
       ELSE \E buy_delivered \in SendResults, sell_delivered \in SendResults :
               LET st == ProcessSignalsFrom(scan_signals[1], buy_delivered,
                                            sell_delivered)
               IN /\ positions' = st.positions
                  /\ last_alerts' = st.last_alerts
                  /\ total_signals_sent' = st.total_signals_sent
    /\ mpc' = "idle"
    /\ UNCHANGED <<scan_signals, telegram_up>>
    /\ UNCHANGED <<cvars, bvars, pvars, svars, tvars>>

\* the seconds since an alert after a lapse
AgedAlert(age, lapse) ==
    IF age = None THEN None
    ELSE IF age + lapse >= alert_cooldown THEN alert_cooldown ELSE age + lapse

\* the whole days since an entry after a lapse that completed so many days
AgedEntry(days, completed) ==
    IF days = None THEN None
    ELSE IF days + completed >= ExitDays THEN ExitDays ELSE days + completed

\* time passes
Lapse ==
    /\ InMonitor
    /\ \E lapse \in Lapses :
          /\ last_alerts' = [key \in AlertKeys |-> AgedAlert(last_alerts[key], lapse)]
          /\ \E completed \in [RangeOf(MonitorWatchlist) ->
                                 IF lapse >= SecondsPerDay THEN {1} ELSE {0, 1}] :
                positions' = [s \in RangeOf(MonitorWatchlist) |->
                                 [positions[s] EXCEPT
                                     !.entry_time = AgedEntry(@, completed[s])]]
    /\ UNCHANGED <<total_signals_sent, scan_signals, telegram_up, mpc>>
    /\ UNCHANGED <<cvars, bvars, pvars, svars, tvars>>

\* from here on every send is answered with 200
Recover ==
    /\ InMonitor
    /\ ~telegram_up
    /\ telegram_up' = TRUE
    /\ UNCHANGED <<positions, last_alerts, total_signals_sent, scan_signals, mpc>>
    /\ UNCHANGED <<cvars, bvars, pvars, svars, tvars>>

NextMonitor ==
    \/ \E symbol \in RangeOf(MonitorWatchlist), feed \in Feeds :
          ScanCheck(symbol, feed)
    \/ ProcessSignals
    \/ Lapse
    \/ Recover

\* the monitor after __init__
InitMonitor ==
    /\ mode = "monitor"
    /\ initial_capital = 0
    /\ strategy_mode = "balanced"
    /\ positions = [s \in RangeOf(MonitorWatchlist) |-> NoPosition]
    /\ last_alerts = [key \in AlertKeys |-> None]
    /\ total_signals_sent = 0
    /\ scan_signals = <<>>
    /\ telegram_up = FALSE
    /\ mpc = "idle"
    /\ is_monitoring = FALSE
    /\ loops = <<>>
    /\ main_pc = "idle"
    /\ configured = FALSE
    /\ attempt = 0
    /\ posts = 0
    /\ response = <<>>
    /\ parse_mode = "HTML"
    /\ payload = <<>>
    /\ returned = <<>>
    /\ tpc = "idle"
    /\ IdlePortfolio
    /\ IdleSingle
    /\ IdleBatch

SpecMonitor == InitMonitor /\ [][NextMonitor]_vars

\* a scan reaches the symbol and gets its data
ScanReaches(symbol) ==
    \E feed \in Feeds : feed.outcome = "ok" /\ ScanCheck(symbol, feed)

\* The monitor while scans keep occurring and sends come to succeed: time
\* passes, the Telegram API recovers at some point, a checked result is
\* processed (scan_single_stock is sequential code), and every scan of
\* _scan_all_stocks_auto walks the whole watchlist, so each symbol is
\* checked again and again.
SpecMonitorFair ==
    /\ SpecMonitor
    /\ WF_vars(Lapse)
    /\ WF_vars(Recover)
    /\ WF_vars(ProcessSignals)
    /\ \A symbol \in RangeOf(MonitorWatchlist) : SF_vars(ScanReaches(symbol))

(***************************************************************************)
(* send_telegram_alert: one call, an iteration of its for loop per step.   *)
(***************************************************************************)
InTelegram == mode = "telegram"

scan_vars == <<positions, last_alerts, total_signals_sent, scan_signals,
                telegram_up, mpc>>

\* what a call of send_telegram_alert leaves alone
send_frame == <<cvars, bvars, pvars, svars, scan_vars, is_monitoring, loops,
                main_pc, configured, parse_mode>>

IdleScan ==
    /\ positions = <<>>
    /\ last_alerts = <<>>
    /\ total_signals_sent = 0
    /\ scan_signals = <<>>
    /\ telegram_up = FALSE
    /\ mpc = "idle"

\* mutant: one more turn of the loop
TelegramMaxRetries_Four == IF InTelegram THEN 4 ELSE 3

\* max_retries of send_telegram_alert
TelegramMaxRetries == 3

\* what a requests.post of the message can come to: a response with its
\* status code (a 429 whose body is no JSON apart), or an exception
PostOutcomes ==
    {"200", "429", "429 unreadable", "400", "500", "Timeout", "ConnectionError",
     "Exception"}

ParseModes == {"HTML", "Markdown"}

\* the guard of line 682: token or chat id missing, return False at once
SendUnconfigured ==
    /\ InTelegram /\ tpc = "start"
    /\ ~configured
    /\ returned' = <<FALSE>>
    /\ tpc' = "done"
    /\ UNCHANGED <<attempt, posts, response, payload>>
    /\ UNCHANGED send_frame

\* lines 686-698: the payload is built and the loop entered
SendBegin ==
    /\ InTelegram /\ tpc = "start"
    /\ configured
    /\ payload' = <<[parse_mode |-> parse_mode, stripped |-> FALSE]>>
    /\ attempt' = 0
    /\ tpc' = "post"
    /\ UNCHANGED <<posts, response, returned>>
    /\ UNCHANGED send_frame

\* return False
ReturnFalse ==
    /\ returned' = <<FALSE>>
    /\ tpc' = "done"
    /\ UNCHANGED attempt

\* the for loop goes to its next value, or is exhausted and line 766 returns
NextAttempt ==
    IF attempt + 1 < TelegramMaxRetries
    THEN /\ attempt' = attempt + 1
         /\ UNCHANGED <<returned, tpc>>
    ELSE /\ attempt' = attempt + 1
         /\ returned' = <<FALSE>>
         /\ tpc' = "done"

\* the except clauses: return False from the last attempt, else fall out of
\* the try statement to the next value of the loop
Excepted ==
    IF attempt = TelegramMaxRetries - 1 THEN ReturnFalse ELSE NextAttempt

\* one iteration of the loop: the post and the branch its outcome takes
SendAttempt(outcome) ==
    /\ InTelegram /\ tpc = "post"
    /\ attempt < TelegramMaxRetries
    /\ posts' = posts + 1
    /\ response' = Append(response, outcome)
    /\ CASE outcome = "200" ->
               /\ returned' = <<TRUE>>
               /\ tpc' = "done"
               /\ UNCHANGED <<attempt, payload>>
         [] outcome = "429" ->
               /\ IF attempt < TelegramMaxRetries - 1 THEN NextAttempt
                  ELSE ReturnFalse
               /\ UNCHANGED payload
         [] outcome = "400" ->
               IF parse_mode = "HTML" /\ attempt < TelegramMaxRetries - 1
               THEN /\ payload' = <<[parse_mode |-> "None", stripped |-> TRUE]>>
                    /\ NextAttempt
               ELSE /\ ReturnFalse
                    /\ UNCHANGED payload
         [] outcome = "500" ->
               /\ IF attempt < TelegramMaxRetries - 1 THEN NextAttempt
                  ELSE ReturnFalse
               /\ UNCHANGED payload
         [] OTHER ->
               \* response.json() of an unreadable 429 raises as well
               /\ Excepted
               /\ UNCHANGED payload
    /\ UNCHANGED send_frame

NextTelegram ==
    \/ SendUnconfigured
    \/ SendBegin
    \/ \E outcome \in PostOutcomes : SendAttempt(outcome)

\* a call of send_telegram_alert
InitTelegram ==
    /\ mode = "telegram"
    /\ initial_capital = 0
    /\ strategy_mode = "balanced"
    /\ IdleScan
    /\ is_monitoring = FALSE
    /\ loops = <<>>
    /\ main_pc = "idle"
    /\ configured \in BOOLEAN
    /\ parse_mode \in ParseModes
    /\ attempt = 0
    /\ posts = 0
    /\ response = <<>>
    /\ payload = <<>>
    /\ returned = <<>>
    /\ tpc = "start"
    /\ IdlePortfolio
    /\ IdleSingle
    /\ IdleBatch

\* the call is sequential code: a step that can be taken is taken
SpecTelegram == InitTelegram /\ [][NextTelegram]_vars /\ WF_vars(NextTelegram)

(***************************************************************************)
(* start_monitoring, stop_monitoring and the threads of                    *)
(* _auto_monitoring_loop.  One thread calls start and stop, one after the  *)
(* other; every loop thread started runs beside it.  A loop thread is at   *)
(* the test of its while statement, inside _scan_all_stocks_auto, in one   *)
(* of its sleeps, or has left the loop.                                    *)
(***************************************************************************)
InLoops == mode = "loops"

MaxStarts == 3      \* loop threads started in a run

send_vars == <<configured, attempt, posts, response, parse_mode, payload,
                returned, tpc>>

\* what starting, stopping and the loop threads leave alone
loops_frame == <<cvars, bvars, pvars, svars, scan_vars, send_vars>>

IdleSend ==
    /\ configured = FALSE
    /\ attempt = 0
    /\ posts = 0
    /\ response = <<>>
    /\ parse_mode = "HTML"
    /\ payload = <<>>
    /\ returned = <<>>
    /\ tpc = "idle"

\* the guard of start_monitoring: if self.is_monitoring: return
StartAllowed == ~is_monitoring

\* start_monitoring past its guard: the flag is set and a new thread started
StartMonitoring ==
    /\ InLoops /\ main_pc = "idle"
    /\ StartAllowed
    /\ Len(loops) < MaxStarts
    /\ is_monitoring' = TRUE
    /\ loops' = Append(loops, "test")
    /\ UNCHANGED main_pc
    /\ UNCHANGED loops_frame

\* stop_monitoring past its guard: the flag is cleared and the thread of
\* self.monitor_thread, the one started last, is joined for 10 seconds
StopMonitoring ==
    /\ InLoops /\ main_pc = "idle"
    /\ is_monitoring
    /\ is_monitoring' = FALSE
    /\ main_pc' = "join"
    /\ UNCHANGED loops
    /\ UNCHANGED loops_frame

\* the join returns because the thread has ended
JoinEnds ==
    /\ InLoops /\ main_pc = "join"
    /\ Last(loops) = "exited"
    /\ main_pc' = "idle"
    /\ UNCHANGED <<is_monitoring, loops>>
    /\ UNCHANGED loops_frame

\* the join returns because its 10 seconds are over: the thread is in a
\* scan of the watchlist or in a sleep of scan_interval (300) seconds
JoinTimesOut ==
    /\ InLoops /\ main_pc = "join"
    /\ Last(loops) \in {"scanning", "sleeping"}
    /\ main_pc' = "idle"
    /\ UNCHANGED <<is_monitoring, loops>>
    /\ UNCHANGED loops_frame

\* while self.is_monitoring: and, inside, the market hours
LoopTest(i) ==
    /\ InLoops
    /\ loops[i] = "test"
    /\ \E is_market_open \in BOOLEAN :
          loops' = [loops EXCEPT ![i] = IF ~is_monitoring THEN "exited"
                                       ELSE IF is_market_open THEN "scanning"
                                       ELSE "sleeping"]
    /\ UNCHANGED <<is_monitoring, main_pc>>
    /\ UNCHANGED loops_frame

\* _scan_all_stocks_auto returns or raises; the sleep follows
LoopScanEnds(i) ==
    /\ InLoops
    /\ loops[i] = "scanning"
    /\ loops' = [loops EXCEPT ![i] = "sleeping"]
    /\ UNCHANGED <<is_monitoring, main_pc>>
    /\ UNCHANGED loops_frame

\* time.sleep returns
LoopWakes(i) ==
    /\ InLoops
    /\ loops[i] = "sleeping"
    /\ loops' = [loops EXCEPT ![i] = "test"]
    /\ UNCHANGED <<is_monitoring, main_pc>>
    /\ UNCHANGED loops_frame

NextLoops ==
    \/ StartMonitoring
    \/ StopMonitoring
    \/ JoinEnds
    \/ JoinTimesOut
    \/ \E i \in 1..Len(loops) : LoopTest(i)
    \/ \E i \in 1..Len(loops) : LoopScanEnds(i)
    \/ \E i \in 1..Len(loops) : LoopWakes(i)

\* the monitor after __init__
InitLoops ==
    /\ mode = "loops"
    /\ initial_capital = 0
    /\ strategy_mode = "balanced"
    /\ IdleScan
    /\ is_monitoring = FALSE
    /\ loops = <<>>
    /\ main_pc = "idle"
    /\ IdleSend
    /\ IdlePortfolio
    /\ IdleSingle
    /\ IdleBatch

SpecLoops == InitLoops /\ [][NextLoops]_vars

\* a run of either simulator
Init == InitSingle \/ InitPortfolio

Next == NextSingle \/ NextPortfolio

Spec == Init /\ [][Next]_vars

(***************************************************************************)
(* Properties.                                                             *)
(***************************************************************************)
SignalOf(symbol) ==
    daily_signals[CHOOSE k \in 1..Len(daily_signals) :
                      daily_signals[k].symbol = symbol]

BoughtToday ==
    {all_trades[k].symbol : k \in {j \in 1..Len(all_trades) :
        all_trades[j].date = date /\ all_trades[j].action = "BUY"}}

\* C1: in the portfolio simulator the number of open positions is at most
\* max_positions after every step of every date, and so is the position
\* count of every recorded snapshot.
C1_PositionCap ==
    InPortfolio =>
        /\ Len(holdings) <= max_positions
        /\ Cardinality(HeldSymbols(holdings)) = Len(holdings)
        /\ \A k \in 1..Len(portfolio_history) :
               portfolio_history[k].positions <= max_positions

\* the cap is reached while a further candidate of the date is turned away
C1_Witness ==
    /\ InPortfolio /\ pc = "snapshot"
    /\ Len(holdings) = max_positions
    /\ \E k \in 1..Len(daily_signals) :
         /\ daily_signals[k].buy_signal
         /\ ~IsHeld(holdings, daily_signals[k].symbol)

StrategyExits == {"SELL_SIGNAL", "SELL_TIME"}

\* C2: every completed trade pair (a Buy and the SELL_SIGNAL or SELL_TIME
\* exit of the same position), in either simulator, has a holding period of
\* at least 0 and at most max_holding_days calendar days.
C2_HoldingWithinMax ==
    /\ InPortfolio =>
         \A k \in 1..Len(all_trades) :
            all_trades[k].action \in StrategyExits =>
                /\ 0 <= all_trades[k].days_held
                /\ all_trades[k].days_held <= max_holding_days
    /\ InSingle =>
         \A k \in 2..Len(trades) :
            (trades[k].action \in StrategyExits /\ trades[k - 1].action = "BUY")
            => /\ 0 <= trades[k].date - trades[k - 1].date
               /\ trades[k].date - trades[k - 1].date <= max_holding_days

\* a step of either simulator over a date on which a held position is due
C3_ForcedExitStep ==
    /\ (InPortfolio /\ pc = "time_exit") =>
         \A k \in 1..Len(holdings) :
            DaysHeld(date, holdings[k]) >= max_holding_days =>
               /\ ~IsHeld(holdings', holdings[k].symbol)
               /\ \E j \in (Len(all_trades) + 1)..Len(all_trades') :
                     /\ all_trades'[j].symbol = holdings[k].symbol
                     /\ all_trades'[j].action = "SELL_TIME"
                     /\ all_trades'[j].date = date
    /\ (/\ InSingle /\ Len(data') = Len(data) + 1
        /\ ~IsNaN(Last(data').Close)
        /\ position = 1
        /\ Last(data').date - entry_date >= max_holding_days) =>
         /\ position' = 0
         /\ Len(trades') = Len(trades) + 1
         /\ Last(trades').action = "SELL_TIME"
         /\ Last(trades').date = Last(data').date

\* C3: on a simulated date on which a position is held and has been held
\* for max_holding_days or more, the position is exited on that date and a
\* SELL_TIME trade of that date is recorded for it, whatever the sell signal;
\* in the portfolio simulator and in the single-asset simulator.
C3_ForcedTimeExit == [][C3_ForcedExitStep]_vars

\* a position held for exactly max_holding_days has just been forced out
\* on a date that carries no sell signal for it
C3_Witness ==
    /\ InPortfolio /\ pc = "sell"
    /\ all_trades # <<>>
    /\ Last(all_trades).action = "SELL_TIME"
    /\ Last(all_trades).date = date
    /\ Last(all_trades).days_held = max_holding_days
    /\ ~SignalOf(Last(all_trades).symbol).sell_signal

\* C4: cash is never negative, in the single-asset balance (for positive
\* prices) and in the portfolio cash pool, after every buy, every exit and
\* the final settlement.
C4_CashNonNegative ==
    /\ InPortfolio => total_cash >= 0
    /\ (InSingle /\ \A k \in 1..Len(data) : data[k].Close > 0) => cash >= 0

\* a finished portfolio run that bought, exited and settled an open position
C4_Witness ==
    /\ InPortfolio /\ pc = "done"
    /\ holdings # <<>>
    /\ \E k \in 1..Len(all_trades) : all_trades[k].action = "BUY"
    /\ \E k \in 1..Len(all_trades) : all_trades[k].action \in StrategyExits

C5_HeldValue ==
    SumSeq([k \in 1..Len(holdings) |->
        (holdings[k].shares.num * SignalOf(holdings[k].symbol).price)
            \div holdings[k].shares.den])

\* C5: every snapshot has total_value = cash + stock_value; the snapshot of
\* a date records the cash pool, the number of entries of the holdings map
\* and the sum of shares x that date's close over the positions then held;
\* exactly one snapshot is recorded per simulated date.
C5_SnapshotIdentity ==
    InPortfolio =>
        /\ \A k \in 1..Len(portfolio_history) :
              /\ portfolio_history[k].total_value =
                    portfolio_history[k].cash + portfolio_history[k].stock_value
              /\ portfolio_history[k].date = all_dates[k]
        /\ Len(portfolio_history) =
              IF pc \in {"next_date", "done", "empty"} THEN Len(all_dates)
              ELSE Len(all_dates) - 1
        /\ (pc = "next_date" /\ all_dates # <<>>) =>
              /\ Last(portfolio_history).cash = total_cash
              /\ Last(portfolio_history).positions = Len(holdings)
              /\ Last(portfolio_history).stock_value = C5_HeldValue

\* the second snapshot values a position at a close other than its entry
C5_Witness ==
    /\ InPortfolio /\ pc = "next_date"
    /\ Len(portfolio_history) = 2
    /\ Last(portfolio_history).positions = 1
    /\ Last(portfolio_history).stock_value = 1100
    /\ holdings[1].entry_price = 100

\* C6: after the portfolio simulator has finished, the position map it
\* returns (final_holdings) is empty.
C6_FinalHoldingsEmpty ==
    (InPortfolio /\ pc = "done") => holdings = <<>>

\* C7: at the end of a run every position still held is liquidated at the
\* final price and a SELL_FINAL trade is appended to the ledger for it, in
\* the single-asset simulator and in the portfolio simulator.
C7_FinalSettlementTrade ==
    /\ (InSingle /\ spc = "done" /\ position = 1) =>
          /\ Last(trades).action = "SELL_FINAL"
          /\ Last(trades).price = Last(data).Close
          /\ Last(trades).date = Last(data).date
          /\ cash = Last(trades).value
    /\ (InPortfolio /\ pc = "done") =>
          /\ Cardinality({j \in 1..Len(all_trades) :
                             all_trades[j].action = "SELL_FINAL"})
                = Last(portfolio_history).positions
          /\ \A j \in 1..Len(all_trades) :
                all_trades[j].action = "SELL_FINAL" =>
                    /\ all_trades[j].date = date
                    /\ all_trades[j].price = SignalOf(all_trades[j].symbol).price

C8_HeldAtSelection == HeldSymbols(holdings) \ BoughtToday

C8_Candidates ==
    {k \in 1..Len(daily_signals) :
        /\ daily_signals[k].buy_signal
        /\ daily_signals[k].symbol \notin C8_HeldAtSelection}

\* C8: on a portfolio date the buy candidates are admitted in ascending RSI
\* order: once the admissions of the date are over, every candidate (flat
\* with a buy signal) that was admitted has an RSI no higher than that of
\* every candidate that was not; with one slot left and candidates at RSI 25
\* and 40 only the RSI-25 candidate is admitted.
C8_RsiPriority ==
    (InPortfolio /\ pc = "snapshot") =>
        \A a \in C8_Candidates, b \in C8_Candidates :
            (/\ daily_signals[a].symbol \in BoughtToday
             /\ daily_signals[b].symbol \notin BoughtToday)
            => daily_signals[a].rsi <= daily_signals[b].rsi

\* nine positions were open, one slot was left, and of the two candidates
\* the one listed second, at RSI 25, took it from the one at RSI 40
C8_Witness ==
    /\ InPortfolio /\ pc = "snapshot"
    /\ Len(holdings) = max_positions
    /\ Cardinality(BoughtToday) = 1
    /\ \E a \in C8_Candidates, b \in C8_Candidates :
         /\ daily_signals[a].symbol \in BoughtToday
         /\ daily_signals[b].symbol \notin BoughtToday
         /\ daily_signals[a].rsi = 25
         /\ daily_signals[b].rsi = 40
         /\ b < a

\* a step of the buy loop that appends a trade
C9_AdmissionStep ==
    (InPortfolio /\ pc = "buy" /\ Len(all_trades') = Len(all_trades) + 1) =>
        LET t == Last(all_trades')
        IN  /\ t.action = "BUY"
            /\ t.symbol = Head(buy_candidates).symbol
            /\ t.price = Head(buy_candidates).price
            /\ 10 * t.value <= total_cash
            /\ total_cash < 10 * (t.value + 1)
            /\ t.shares.num = t.value /\ t.shares.den = t.price
            /\ total_cash' = total_cash - t.value
            /\ IsHeld(holdings', t.symbol)
            /\ HoldingOf(holdings', t.symbol).shares = t.shares
            /\ HoldingOf(holdings', t.symbol).entry_date = date

\* C9: each admission invests investment_ratio (1/10) of the cash pool as it
\* stands immediately before that admission (to the dollar), buys
\* amount / price shares, records a BUY of that value and takes exactly that
\* amount from the pool; successive admissions of one date are sized on the
\* pool as already reduced.
C9_AdmissionSizing == [][C9_AdmissionStep]_vars

\* two admissions of one date, the second sized on the reduced pool
C9_Witness ==
    /\ InPortfolio
    /\ Len(all_trades) >= 2
    /\ Last(all_trades).action = "BUY"
    /\ all_trades[Len(all_trades) - 1].action = "BUY"
    /\ all_trades[Len(all_trades) - 1].date = Last(all_trades).date
    /\ all_trades[Len(all_trades) - 1].value = 10000
    /\ Last(all_trades).value = 9000

\* a step of the buy loop: below the floor nothing changes, and a trade is
\* appended only at or above it
C10_FloorStep ==
    (InPortfolio /\ pc = "buy") =>
        /\ (total_cash < 1000 \/ 10 * 1000 > total_cash) =>
              UNCHANGED <<total_cash, holdings, all_trades>>
        /\ Len(all_trades') > Len(all_trades) =>
              /\ total_cash >= 1000
              /\ Last(all_trades').value >= 1000

\* every BUY of the ledger is worth at least the floor
C10_BuyTradesAboveFloor ==
    InPortfolio =>
        \A k \in 1..Len(all_trades) :
            all_trades[k].action = "BUY" => all_trades[k].value >= 1000

\* C10: no BUY is made while the cash pool is below the floor of 1000, no
\* BUY trade has a value below 1000, and a candidate whose investment amount
\* is below the floor is passed over with cash, holdings and ledger unchanged.
C10_CashFloor == [][C10_FloorStep]_vars /\ []C10_BuyTradesAboveFloor

\* a candidate has just been passed over with 9000 in the pool
C10_Witness ==
    /\ InPortfolio /\ pc = "snapshot"
    /\ total_cash = 9000
    /\ \E k \in 1..Len(daily_signals) :
         /\ daily_signals[k].buy_signal
         /\ ~IsHeld(holdings, daily_signals[k].symbol)
    /\ Len(holdings) = 1
    /\ BoughtToday # {}

\* C11: in the portfolio simulator the ledger never holds, for one symbol
\* and one date, both a SELL_TIME trade and a BUY trade.
C11_NoExitAndReentry ==
    InPortfolio =>
        \A a \in 1..Len(all_trades), b \in 1..Len(all_trades) :
            ~(/\ all_trades[a].action = "SELL_TIME"
              /\ all_trades[b].action = "BUY"
              /\ all_trades[a].symbol = all_trades[b].symbol
              /\ all_trades[a].date = all_trades[b].date)

\* the state the single-asset lifecycle carries from row to row
C12_Lifecycle == <<position, shares, cash, entry_date, entry_price, trades>>

\* a row of the single-asset loop that carries a signal for the other state
C12_WrongStateStep ==
    (InSingle /\ Len(data') = Len(data) + 1) =>
        LET row == Last(data')
        IN  /\ (/\ position = 1
                /\ row.BNF_Buy_Signal
                /\ ~row.BNF_Sell_Signal
                /\ row.date - entry_date < max_holding_days)
               => UNCHANGED C12_Lifecycle
            /\ (position = 0 /\ row.BNF_Sell_Signal /\ ~row.BNF_Buy_Signal)
               => UNCHANGED C12_Lifecycle

C13_BuyStep ==
    (/\ InSingle /\ Len(trades') = Len(trades) + 1
     /\ Last(trades').action = "BUY") =>
        /\ position = 0 /\ position' = 1
        /\ Last(trades').value = cash
        /\ Last(trades').price = Last(data').Close
        /\ Last(trades').shares = shares'
        /\ shares'.num = cash /\ shares'.den = Last(data').Close
        /\ cash' = 0

\* while the loop runs: held iff shares > 0 iff cash = 0
C13_HeldIffInvested ==
    (InSingle /\ spc = "loop") =>
        /\ (position = 1) <=> (shares.num > 0)
        /\ (position = 1) <=> (cash = 0)

\* C13: in the single-asset simulator every buy commits the entire cash
\* balance: shares = cash / price, the BUY trade's value is the cash before
\* the buy, cash is 0 right afterwards and stays 0 on every row on which the
\* position is held, so that (prices being positive) held, shares > 0 and
\* cash = 0 coincide while the rows are iterated.
C13_AllCashCommitted == [][C13_BuyStep]_vars /\ []C13_HeldIffInvested

\* the second buy of a run commits the 11000 the first round trip left
C13_Witness ==
    /\ InSingle /\ spc = "loop"
    /\ Len(trades) = 3
    /\ Last(trades).action = "BUY"
    /\ Last(trades).value = 11000
    /\ shares = [num |-> 11000, den |-> Last(trades).price]
    /\ position = 1 /\ cash = 0

\* C14: a finished single-asset run from capital C whose ledger is exactly
\* one buy at p1 and one strategy exit at p2 has final cash C x p2 / p1 and
\* total return (p2 - p1) / p1 x 100, and exactly one completed trade whose
\* profit percentage is that return; 10000, 100 and 110 give 11000 and
\* 10.00 per cent.
C14_RoundTripReturn ==
    (/\ InSingle /\ spc = "done" /\ Len(trades) = 2
     /\ trades[1].action = "BUY"
     /\ trades[2].action \in StrategyExits) =>
        LET p1 == trades[1].price
            p2 == trades[2].price
            completed_trades == AnalyzeBnfTrades(trades)
        IN  /\ cash = (initial_capital * p2) \div p1
            /\ TotalReturn(cash) = ((p2 - p1) * 10000) \div p1
            /\ Len(completed_trades) = 1
            /\ completed_trades[1].profit_pct = TotalReturn(cash)
            /\ (p1 = 100 /\ p2 = 110) =>
                  /\ cash = 11000
                  /\ TotalReturn(cash) = 1000
                  /\ completed_trades[1].profit_pct = 1000

\* Scenario D: 10000 invested at 100 and sold on the signal at 110
C14_Witness ==
    /\ InSingle /\ spc = "done" /\ Len(trades) = 2
    /\ trades[1].action = "BUY" /\ trades[1].price = 100
    /\ trades[1].shares = [num |-> 10000, den |-> 100]
    /\ trades[2].action = "SELL_SIGNAL" /\ trades[2].price = 110
    /\ cash = 11000

\* a row of the single-asset loop whose RSI or Williams %R is undefined
C15_UndefinedRowStep ==
    (/\ InSingle /\ Len(data') = Len(data) + 1
     /\ (IsNaN(Last(data').RSI) \/ IsNaN(Last(data').Williams_R))) =>
        UNCHANGED <<position, shares, cash, trades, entry_date, entry_price>>

\* C15: a row whose RSI or Williams %R is NaN is skipped by the single-asset
\* simulator: no buy, no signal exit and no forced time exit happens on it,
\* and position, shares and cash are unchanged.
C15_UndefinedRowSkipped == [][C15_UndefinedRowStep]_vars

\* the dates present in every participating symbol's series
C16_DatesInEverySeries ==
    {d \in stock_data[1] : \A j \in 1..Len(stock_data) : d \in stock_data[j]}

\* C16: the calendar of the portfolio simulator is exactly the set of dates
\* present in every participating symbol's series: every simulated date is
\* in every series, the dates are processed in strictly ascending order
\* (hence once each, with one snapshot each), and when the run ends every
\* common date has been simulated.
C16_CalendarIsIntersection ==
    InPortfolio =>
        /\ RangeOf(all_dates) \subseteq C16_DatesInEverySeries
        /\ \A k \in 1..(Len(all_dates) - 1) : all_dates[k] < all_dates[k + 1]
        /\ pc \in {"done", "empty"} =>
              /\ RangeOf(all_dates) = C16_DatesInEverySeries
              /\ Len(portfolio_history) = Len(all_dates)
              /\ \A k \in 1..Len(all_dates) :
                    portfolio_history[k].date = all_dates[k]

\* a finished run over days 0 and 3 that traded, while day 1 was in the
\* first series only and day 2 in the second only
C16_Witness ==
    /\ InPortfolio /\ pc = "done"
    /\ stock_data = <<{0, 1, 3}, {0, 2, 3}>>
    /\ all_dates = <<0, 3>>
    /\ Len(all_trades) >= 2

\* every iteration of the buy loop leaves the outcome of the loop as a
\* whole as it was, and the loop ends in that outcome
BuyLoopAgrees ==
    [][(InPortfolio /\ pc = "buy") =>
        LET now == BuyLoop(date, buy_candidates, total_cash, holdings)
            next == BuyLoop(date, buy_candidates', total_cash', holdings')
        IN  /\ next.cash = now.cash
            /\ next.holdings = now.holdings
            /\ all_trades' \o next.trades = all_trades \o now.trades
            /\ pc' = "snapshot" =>
                  /\ total_cash' = now.cash
                  /\ holdings' = now.holdings
                  /\ all_trades' = all_trades \o now.trades]_vars

C17_Reversed(s) == [k \in 1..Len(s) |-> s[Len(s) + 1 - k]]

C17_Swapped(s, i, j) ==
    [k \in 1..Len(s) |-> IF k = i THEN s[j] ELSE IF k = j THEN s[i] ELSE s[k]]

\* the rows of the date in other listed orders: reversed, or two exchanged
C17_Reorderings(s) ==
    {C17_Reversed(s)} \cup
    {C17_Swapped(s, i, j) : i \in 1..Len(s), j \in 1..Len(s)}

\* C17: whatever the order in which the symbols are listed and processed on
\* a date, the portfolio simulator makes the same exits and the same
\* admissions on that date and ends it with the same cash and the same
\* snapshot.
C17_OrderIndependent ==
    (InPortfolio /\ pc = "time_exit") =>
        \A other \in C17_Reorderings(daily_signals) :
            LET listed == DayOutcome(date, daily_signals, total_cash, holdings,
                                     all_trades)
                permuted == DayOutcome(date, other, total_cash, holdings,
                                       all_trades)
            IN  /\ RangeOf(permuted.exits) = RangeOf(listed.exits)
                /\ RangeOf(permuted.admissions) = RangeOf(listed.admissions)
                /\ permuted.cash = listed.cash
                /\ permuted.snapshot = listed.snapshot

\* the values row k of the frame was computed from
ValuesAt(k) ==
    [Close |-> data[k].Close,
     PrevClose |-> IF k = 1 THEN NaN ELSE data[k - 1].Close,
     RSI |-> data[k].RSI, Williams_R |-> data[k].Williams_R,
     Volume_Ratio |-> data[k].Volume_Ratio,
     MA25_Ratio |-> data[k].MA25_Ratio]

\* the three buy triggers of a row, under the thresholds of the run
C18_RsiTrigger(x) ==
    Le(x.RSI, Self.rsi_oversold) /\ Gt(x.Volume_Ratio, Self.volume_threshold)

C18_WilliamsTrigger(x) ==
    /\ Le(x.Williams_R, Self.williams_oversold)
    /\ Gt(x.Volume_Ratio, Self.volume_threshold)

C18_ReboundTrigger(x) ==
    /\ Le(x.MA25_Ratio, Self.ma_oversold_threshold)
    /\ Gt(x.Close, x.PrevClose)
    /\ Gt(x.Volume_Ratio, 110)

\* C18: on every indicator row the buy flag is true exactly when RSI is at
\* or below the oversold threshold on a volume ratio above the volume
\* threshold, or Williams %R is at or below its oversold threshold on such
\* a volume ratio, or the MA ratio is at or below tau with the close above
\* the previous close and a volume ratio above 1.1; one trigger is enough.
C18_BuyFlag ==
    InIndicators =>
        \A k \in 1..Len(data) :
            data[k].BNF_Buy_Signal <=>
                \/ C18_RsiTrigger(ValuesAt(k))
                \/ C18_WilliamsTrigger(ValuesAt(k))
                \/ C18_ReboundTrigger(ValuesAt(k))

\* a conservative run: the rebound trigger alone, on a volume ratio of 1.2
\* that is below the preset's volume threshold, sets the flag
C18_Witness ==
    /\ InIndicators /\ Len(data) = 2
    /\ strategy_mode = "conservative"
    /\ data[2].BNF_Buy_Signal
    /\ data[2].Volume_Ratio = 120
    /\ ~C18_RsiTrigger(ValuesAt(2))
    /\ ~C18_WilliamsTrigger(ValuesAt(2))
    /\ C18_ReboundTrigger(ValuesAt(2))

\* C19: on every indicator row the sell flag is true exactly when RSI is at
\* or above the overbought threshold, or Williams %R is at or above its
\* overbought threshold, or the MA ratio is at or above the fixed 1.10; one
\* trigger is enough.
C19_SellFlag ==
    InIndicators =>
        \A k \in 1..Len(data) :
            data[k].BNF_Sell_Signal <=>
                \/ Ge(data[k].RSI, Self.rsi_overbought)
                \/ Ge(data[k].Williams_R, Self.williams_overbought)
                \/ Ge(data[k].MA25_Ratio, 110)

\* the MA ratio of exactly 1.10 alone sets the flag
C19_Witness ==
    /\ InIndicators /\ Len(data) = 2
    /\ data[2].BNF_Sell_Signal
    /\ data[2].MA25_Ratio = 110
    /\ data[2].RSI = 50
    /\ data[2].Williams_R = 0 - 50

C20_Buy(m, k) == BNF_Buy_Signal(SetupBnfParameters(m), ValuesAt(k))

C20_Sell(m, k) == BNF_Sell_Signal(SetupBnfParameters(m), ValuesAt(k))

\* C20: the presets are ordered by strictness: on every indicator row a buy
\* flag under conservative implies one under balanced, which implies one
\* under aggressive, and likewise for the sell flag.
C20_PresetsOrdered ==
    InIndicators =>
        \A k \in 1..Len(data) :
            /\ C20_Buy("conservative", k) => C20_Buy("balanced", k)
            /\ C20_Buy("balanced", k) => C20_Buy("aggressive", k)
            /\ C20_Sell("conservative", k) => C20_Sell("balanced", k)
            /\ C20_Sell("balanced", k) => C20_Sell("aggressive", k)

\* a balanced run flags a buy and a sell on a row that the conservative
\* preset flags for neither
C20_Witness ==
    /\ InIndicators /\ Len(data) = 2
    /\ strategy_mode = "balanced"
    /\ data[2].BNF_Buy_Signal /\ data[2].BNF_Sell_Signal
    /\ ~C20_Buy("conservative", 2) /\ ~C20_Sell("conservative", 2)
    /\ C20_Buy("aggressive", 2) /\ C20_Sell("aggressive", 2)

\* C21: an engine constructed with a preset name other than conservative,
\* balanced or aggressive, or with a capital that is not positive, runs no
\* simulation: no row is processed and no result is built.
C21_InvalidConfigurationAborts ==
    (strategy_mode \notin StrategyModes \/ initial_capital <= 0) =>
        /\ data = <<>> /\ trades = <<>> /\ equity_curve = <<>>
        /\ spc # "done"

\* a download run_single_backtest cannot use: a provider error, no rows, a
\* history shorter than ema_long, too many missing closes or a mean close
\* outside $1..$10,000
Unusable(f) ==
    f.raises \/ Empty(f) \/ f.len < ema_long \/ PoorQuality(f) \/ AbnormalPrice(f)

\* C22: a call of run_single_backtest whose download is a provider error,
\* empty, too short or of bad quality hands None back to the batch, which
\* counts a failed attempt and goes on; and once the batch has ended without
\* an interrupt every symbol, whatever failed before it, has been attempted.
C22_FailuresAreAbsorbed ==
    /\ [][(calls' # calls /\ Unusable(fetched'[1])) =>
            /\ result' = <<>>
            /\ results' = results
            /\ ~success'
            /\ retry_count' = retry_count + 1
            /\ bpc' = "while" /\ ~interrupted']_vars
    /\ [](/\ \A k \in 1..(symbol_index - 1) : calls[k] >= 1
          /\ (bpc \in {"summary", "done", "empty"} /\ ~interrupted) =>
                \A k \in 1..Len(stocks_to_test) : calls[k] >= 1)

\* two symbols have failed for good, the last download of the third was a
\* provider error, and the third is being retried
C22_Witness ==
    /\ InBatch /\ bpc = "while"
    /\ failed_stocks = <<"AAPL", "MSFT">>
    /\ symbol_index = 3 /\ retry_count = 1
    /\ fetched # <<>> /\ fetched[1].raises

\* how often x occurs in the list s
Occurrences(s, x) == Cardinality({k \in 1..Len(s) : s[k] = x})

ResultSymbols == [k \in 1..Len(results) |-> results[k].symbol]

BatchOver == bpc \in {"summary", "done", "empty"}

\* C23: run_multi_stock_backtest attempts no symbol more than 3 times and
\* never again once it has a result for it, the batch ends, and a batch that
\* no Ctrl+C cut short leaves every tested symbol exactly once in results or
\* exactly once in failed_stocks, never in both, so that successes plus
\* failures is the number of symbols tested.
C23_BoundedRetriesAndPartition ==
    /\ [](\A k \in 1..Len(calls) : calls[k] <= 3)
    /\ [][\A k \in 1..Len(calls) :
            Occurrences(ResultSymbols, stocks_to_test[k]) > 0
                => calls'[k] = calls[k]]_vars
    /\ <>(bpc \in {"done", "empty"})
    /\ []((BatchOver /\ ~interrupted) =>
            /\ \A k \in 1..Len(stocks_to_test) :
                  Occurrences(ResultSymbols, stocks_to_test[k])
                      + Occurrences(failed_stocks, stocks_to_test[k]) = 1
            /\ Len(results) + Len(failed_stocks) = Len(stocks_to_test))

\* a finished batch of three: the first symbol failed three times, the
\* second succeeded at its second attempt, the third at its third
C23_Witness ==
    /\ InBatch /\ bpc = "done" /\ ~interrupted
    /\ calls = <<3, 2, 3>>
    /\ failed_stocks = <<"AAPL">>
    /\ ResultSymbols = <<"MSFT", "GOOGL">>

\* C24: a symbol whose download has more than a tenth of its closes missing,
\* or a mean close below $1 or above $10,000, is not among the symbols the
\* portfolio simulator is given.
C24_PoorDataTakesNoPart ==
    InPrepare =>
        \A k \in 1..Len(valid_stocks) :
            ~PoorQuality(stock_data[k]) /\ ~AbnormalPrice(stock_data[k])

\* C25: in every row whose window holds no loss the RSI column is 100, a
\* window without any price change included.
C25_ZeroLossGivesHundred ==
    (InRsi /\ spc = "done") =>
        \A k \in RsiWindow..Len(data) :
            LossSum(ClosesOf(data), k) = 0 => data[k].RSI = 100

\* the values of the run so far: the equity curve of a single-asset run,
\* the snapshots of a portfolio run
RunValues ==
    IF InSingle
    THEN [k \in 1..Len(equity_curve) |-> equity_curve[k].portfolio_value]
    ELSE [k \in 1..Len(portfolio_history) |-> portfolio_history[k].total_value]

RunningPeak(values, i) ==
    CHOOSE m \in {values[k] : k \in 1..i} : \A k \in 1..i : values[k] <= m

DrawdownAt(values, i) ==
    Fraction(RunningPeak(values, i) - values[i], RunningPeak(values, i))

RunMaxDrawdown ==
    IF InSingle THEN CalculateMaxDrawdown(equity_curve)
    ELSE PortfolioMaxDrawdown(portfolio_history)

\* C26: over the values of a run the maximum drawdown is the largest of the
\* drawdowns (peak_i - value_i) / peak_i, peak_i being the largest value up
\* to i; it is not negative, it is 0 exactly when no value lies below its
\* running peak, and the single-asset and the portfolio computation give
\* the same number for the same values.
C26_MaxDrawdown ==
    RunValues # <<>> =>
        LET n == Len(RunValues) IN
        /\ \E i \in 1..n : FracEq(RunMaxDrawdown, DrawdownAt(RunValues, i))
        /\ \A i \in 1..n : ~FracGt(DrawdownAt(RunValues, i), RunMaxDrawdown)
        /\ RunMaxDrawdown.num >= 0 /\ RunMaxDrawdown.den > 0
        /\ RunMaxDrawdown.num = 0
               <=> \A i \in 1..n : RunValues[i] = RunningPeak(RunValues, i)
        /\ CalculateMaxDrawdown(
               [k \in 1..n |-> [portfolio_value |-> RunValues[k]]])
             = PortfolioMaxDrawdown(
                   [k \in 1..n |-> [total_value |-> RunValues[k]]])

\* a single-asset run whose value rose above its start and then fell
C26_Witness ==
    /\ InSingle /\ Len(equity_curve) = 3
    /\ RunValues[2] > RunValues[1] /\ RunValues[3] < RunValues[2]
    /\ RunMaxDrawdown.num > 0

\* the sells of a ledger, each of which closes the buy before it
ClosingSells(ts) ==
    {k \in 1..Len(ts) : ts[k].action \in {"SELL_SIGNAL", "SELL_TIME", "SELL_FINAL"}}

\* C27: in a finished single-asset run every buy that a sell has closed, be
\* it a signal exit, a forced time exit or the final settlement, is one
\* completed trade: total_trades is the number of closing sells.
C27_EveryClosedBuyIsAPair ==
    (InSingle /\ spc = "done") =>
        Len(AnalyzeBnfTrades(trades)) = Cardinality(ClosingSells(trades))

\* the place of an action in the steps of one date
StepOf(action) ==
    CASE action = "SELL_TIME" -> 2
      [] action = "SELL_SIGNAL" -> 3
      [] action = "BUY" -> 4

\* the cash the current date started with
StartCash ==
    IF portfolio_history = <<>> THEN initial_capital
    ELSE Last(portfolio_history).cash

\* the values of the trades of date d whose action is in the set
ValuesOn(d, actions) ==
    LET On(t) == t.date = d /\ t.action \in actions
    IN  SumSeq(TradeValues(SelectSeq(all_trades, On)))

MidDate == pc \in {"sell", "select", "buy", "snapshot"}

\* C28: in the ledger the trades of one date stand in the order forced time
\* exits, signal exits, buys; the snapshot of a date is taken after its last
\* trade; and what the exits of a date free is there for its buys: the cash
\* the buys draw on holds the proceeds of the date's exits, and the buys may
\* fill every slot the holdings leave after the exits.
C28_StepsInOrder ==
    InPortfolio =>
        /\ \A j, k \in 1..Len(all_trades) :
              (j < k /\ all_trades[j].date = all_trades[k].date) =>
                  StepOf(all_trades[j].action) <= StepOf(all_trades[k].action)
        /\ \A k \in 1..Len(portfolio_history) :
              portfolio_history[k].daily_trades
                  = DailyTradeCount(all_trades, portfolio_history[k].date)
        /\ MidDate =>
              total_cash = StartCash
                  + ValuesOn(date, {"SELL_TIME", "SELL_SIGNAL"})
                  - ValuesOn(date, {"BUY"})
        /\ pc = "buy" =>
              /\ buy_candidates # <<>>
              /\ Len(buy_candidates) <= max_positions - Len(holdings)

\* a date with a forced time exit, a signal exit and a buy, the buy having
\* drawn on the proceeds of both exits
C28_Witness ==
    /\ InPortfolio /\ pc = "snapshot"
    /\ \E i, j, k \in 1..Len(all_trades) :
          /\ i < j /\ j < k
          /\ all_trades[i].date = date /\ all_trades[i].action = "SELL_TIME"
          /\ all_trades[j].date = date /\ all_trades[j].action = "SELL_SIGNAL"
          /\ all_trades[k].date = date /\ all_trades[k].action = "BUY"
          /\ all_trades[k].value =
                 InvestmentAmount(StartCash + all_trades[i].value
                                      + all_trades[j].value)

\* a date on which a position was sold and two were bought, the holdings
\* ending full
C28_SlotsReused ==
    /\ InPortfolio /\ pc = "snapshot"
    /\ Len(holdings) = max_positions
    /\ \E i, j, k \in 1..Len(all_trades) :
          /\ i < j /\ j < k
          /\ all_trades[i].date = date /\ all_trades[i].action # "BUY"
          /\ all_trades[j].date = date /\ all_trades[j].action = "BUY"
          /\ all_trades[k].date = date /\ all_trades[k].action = "BUY"

\* the positions h at the closes of the current date
HeldValue(h) ==
    SumSeq([k \in 1..Len(h) |->
               ValueOf(h[k].shares, PriceOf(daily_signals, h[k].symbol))])

\* C29: the exits and buys of a date move value between cash and positions
\* without changing the total: from the start of a date on, cash plus the
\* positions at the date's closes stays what it was when the date began, and
\* the date's snapshot records that total.
C29_CapitalConserved ==
    [][(InPortfolio /\ pc \in {"time_exit", "sell", "select", "buy", "snapshot"})
          => /\ total_cash' + HeldValue(holdings')
                  = total_cash + HeldValue(holdings)
             /\ pc = "snapshot" =>
                  Last(portfolio_history').total_value
                      = total_cash + HeldValue(holdings)]_vars

\* the snapshot of a second date on which a position was sold and another
\* bought, a position being held over a price change
C29_Witness ==
    /\ InPortfolio /\ pc = "next_date"
    /\ Len(portfolio_history) >= 2
    /\ Last(portfolio_history).daily_trades >= 2
    /\ Last(portfolio_history).stock_value > 0
    /\ Last(portfolio_history).total_value
           # portfolio_history[Len(portfolio_history) - 1].total_value
    /\ \E j, k \in 1..Len(all_trades) :
          /\ all_trades[j].date = date /\ all_trades[j].action # "BUY"
          /\ all_trades[k].date = date /\ all_trades[k].action = "BUY"

\* the trades of one symbol, in ledger order
TradesOf(s) ==
    LET Of(t) == t.symbol = s
    IN  SelectSeq(all_trades, Of)

\* C30: the holdings never hold a symbol twice; the trades of each symbol
\* are a BUY, an exit, a BUY, an exit and so on, beginning with a BUY; and a
\* symbol is held exactly when its latest trade is a BUY.
C30_OnePositionPerSymbol ==
    InPortfolio =>
        /\ Cardinality(HeldSymbols(holdings)) = Len(holdings)
        /\ \A s \in RangeOf(valid_stocks) :
              /\ \A k \in 1..Len(TradesOf(s)) :
                    (TradesOf(s)[k].action = "BUY") <=> (k % 2 = 1)
              /\ IsHeld(holdings, s) <=>
                    /\ TradesOf(s) # <<>>
                    /\ Last(TradesOf(s)).action = "BUY"

\* a symbol bought, sold and bought again, held under its second entry
C30_Witness ==
    /\ InPortfolio
    /\ \E s \in RangeOf(valid_stocks) :
          /\ Len(TradesOf(s)) = 3
          /\ TradesOf(s)[2].action = "SELL_SIGNAL"
          /\ IsHeld(holdings, s)
          /\ HoldingOf(holdings, s).entry_date = TradesOf(s)[3].date

\* a step that opens a position: the holdings gain a symbol or the ledger
\* gains a BUY
Admits ==
    \/ HeldSymbols(holdings') \ HeldSymbols(holdings) # {}
    \/ /\ Len(all_trades') > Len(all_trades)
       /\ Last(all_trades').action = "BUY"

\* C31: the portfolio simulator opens no position while the cash pool is
\* below ten times the floor of $1,000: every step that opens one starts
\* from a cash pool of at least $10,000.
C31_NoBuyBelowTenFloors ==
    [][(InPortfolio /\ Admits) => total_cash >= 10 * CashFloor]_vars

\* after a first buy the cash is below $10,000 and a candidate with a free
\* slot has been passed over: the date ends with one position
C31_Witness ==
    /\ InPortfolio /\ pc = "snapshot"
    /\ total_cash < 10 * CashFloor /\ total_cash >= CashFloor
    /\ Len(holdings) = 1 /\ Len(all_trades) = 1
    /\ \E k \in 1..Len(daily_signals) :
          /\ daily_signals[k].buy_signal
          /\ ~IsHeld(holdings, daily_signals[k].symbol)

\* C32: when the portfolio run is done, final_value, the cash after the
\* remaining positions were liquidated at the closes of the last simulated
\* date, is the total_value of the last snapshot, and total_return is the
\* return of that value on the initial capital.
C32_FinalValueIsLastSnapshot ==
    (InPortfolio /\ pc = "done") =>
        /\ total_cash = Last(portfolio_history).total_value
        /\ TotalReturn(total_cash)
             = Pct(Last(portfolio_history).total_value - initial_capital,
                   initial_capital)

\* a finished run that liquidated a position bought at another price
C32_Witness ==
    /\ InPortfolio /\ pc = "done"
    /\ \E k \in 1..Len(holdings) :
          holdings[k].entry_price # PriceOf(daily_signals, holdings[k].symbol)
    /\ total_cash # initial_capital
    /\ total_cash > Last(portfolio_history).cash

PrepareOver == bpc \in {"summary", "done", "empty"}

\* C33: when the data preparation of run_bnf_portfolio_backtest is over, no
\* symbol was downloaded more than twice and every tested symbol stands
\* exactly once in valid_stocks or exactly once in failed_stocks, so that
\* the two lists together are as long as the list of tested symbols.
C33_ClassifiedExactlyOnce ==
    InPrepare =>
        /\ \A k \in 1..Len(calls) : calls[k] <= 2
        /\ PrepareOver =>
              /\ \A k \in 1..Len(stocks_to_test) :
                    Occurrences(valid_stocks, stocks_to_test[k])
                        + Occurrences(failed_stocks, stocks_to_test[k]) = 1
              /\ Len(valid_stocks) + Len(failed_stocks) = Len(stocks_to_test)

\* process_signals has just run on the result of a check
ProcessStep == InMonitor /\ mpc = "checked" /\ mpc' = "idle"

\* the step approved an alert of the key: should_send_alert stamped it
Approved(key) == last_alerts'[key] = 0 /\ last_alerts[key] # 0

C34_FlagsFollowPosition ==
    scan_signals' # <<>> =>
        LET sig == scan_signals'[1]
        IN /\ sig.buy_signal => sig.position_status = "none"
           /\ sig.sell_signal => sig.position_status = "holding"
           /\ ~(sig.buy_signal /\ sig.sell_signal)

C34_OneAlertPerCheck ==
    ProcessStep =>
        /\ \A s \in RangeOf(MonitorWatchlist) :
              ~(Approved(<<s, "buy">>) /\ Approved(<<s, "sell">>))
        /\ total_signals_sent' <= total_signals_sent + 1

\* C34: check_bnf_signals reports buy_signal only for a symbol without
\* position and sell_signal only for a symbol held, so no result carries
\* both flags, and process_signals approves (and so sends) at most one of
\* the buy and the sell alert of a symbol for one check.
C34_BuyXorSell == [][C34_FlagsFollowPosition /\ C34_OneAlertPerCheck]_vars

\* the sell alert of a held symbol has just been delivered from a check that
\* reported sell and not buy, while a buy alert of the symbol was out of its
\* cooldown
C34_Witness ==
    /\ InMonitor /\ mpc = "idle"
    /\ scan_signals # <<>>
    /\ scan_signals[1].sell_signal /\ ~scan_signals[1].buy_signal
    /\ scan_signals[1].position_status = "holding"
    /\ positions[scan_signals[1].symbol].status = "none"
    /\ last_alerts[<<scan_signals[1].symbol, "sell">>] = 0
    /\ last_alerts[<<scan_signals[1].symbol, "buy">>] = alert_cooldown

\* the status of a symbol moves only in process_signals, on the symbol of
\* the check, together with the count of a delivered alert: to holding from
\* a buy signal, with the price of the check and the entry time of the
\* moment, and to none from a sell signal
C35_MovesOnlyOnDelivery ==
    \A s \in RangeOf(MonitorWatchlist) :
        positions'[s].status # positions[s].status =>
            /\ ProcessStep
            /\ scan_signals # <<>>
            /\ scan_signals[1].symbol = s
            /\ total_signals_sent' = total_signals_sent + 1
            /\ IF positions'[s].status = "holding"
               THEN /\ positions[s].status = "none"
                    /\ scan_signals[1].buy_signal
                    /\ Approved(<<s, "buy">>)
                    /\ positions'[s].entry_price = scan_signals[1].price
                    /\ positions'[s].entry_time = 0
               ELSE /\ positions[s].status = "holding"
                    /\ scan_signals[1].sell_signal
                    /\ Approved(<<s, "sell">>)
                    /\ positions'[s] = NoPosition

\* the alert of the type would be delivered from the checked result: flagged,
\* out of its cooldown, and the send succeeds
Delivered(sig, signal_type, send_ok) ==
    /\ IF signal_type = "buy" THEN sig.buy_signal ELSE sig.sell_signal
    /\ ShouldSendAlert(last_alerts, <<sig.symbol, signal_type>>)
    /\ send_ok

\* whatever the two sends answer, process_signals without a delivered alert
\* leaves the positions and the counter as they are
C35_UndeliveredLeavesState ==
    (InMonitor /\ mpc = "checked" /\ scan_signals # <<>>) =>
        \A buy_ok \in BOOLEAN, sell_ok \in BOOLEAN :
            LET sig == scan_signals[1]
                st == ProcessSignalsFrom(sig, buy_ok, sell_ok)
            IN (~Delivered(sig, "buy", buy_ok) /\ ~Delivered(sig, "sell", sell_ok))
                   => /\ st.positions = positions
                      /\ st.total_signals_sent = total_signals_sent
                      /\ ~st.alert_sent

\* C35: the position of a symbol changes only inside process_signals after
\* an alert was delivered: none to holding on a delivered buy alert, which
\* records entry price and entry time, holding to none on a delivered sell
\* alert; an alert suppressed by the cooldown or whose send fails leaves the
\* positions and the alert counter unchanged.
C35_PositionFollowsDeliveredAlerts ==
    [][C35_MovesOnlyOnDelivery /\ C35_UndeliveredLeavesState]_vars

\* one symbol is held from a delivered buy alert; the buy alert of another
\* was approved and its send failed, and that symbol is still without
\* position
C35_Witness ==
    /\ InMonitor /\ mpc = "idle"
    /\ total_signals_sent = 1
    /\ scan_signals # <<>>
    /\ scan_signals[1].buy_signal
    /\ positions[scan_signals[1].symbol] = NoPosition
    /\ last_alerts[<<scan_signals[1].symbol, "buy">>] = 0
    /\ \E s \in RangeOf(MonitorWatchlist) :
          /\ positions[s].status = "holding"
          /\ positions[s].entry_price = 100
          /\ positions[s].entry_time # None

\* an alert of a key is approved only if no alert of the key was approved
\* before or alert_cooldown seconds have passed since the last approval
C37_OncePerWindow ==
    \A key \in AlertKeys :
        Approved(key) =>
            \/ last_alerts[key] = None
            \/ last_alerts[key] >= alert_cooldown

\* the cooldown of a key is its own: an approval stamps that key alone, and
\* a key out of its cooldown (or never approved) is approved whenever its
\* flag comes up, whatever the stamps of the other keys
C37_KeysAreIndependent ==
    /\ ProcessStep =>
          \A key \in AlertKeys :
              (last_alerts'[key] # last_alerts[key]) => Approved(key)
    /\ (ProcessStep /\ scan_signals # <<>>) =>
          \A signal_type \in SignalTypes :
              LET sig == scan_signals[1]
                  key == <<sig.symbol, signal_type>>
                  flag == IF signal_type = "buy" THEN sig.buy_signal
                          ELSE sig.sell_signal
              IN (flag /\ (last_alerts[key] = None
                           \/ last_alerts[key] >= alert_cooldown))
                     => last_alerts'[key] = 0

\* C37: should_send_alert approves at most one alert per (symbol, signal
\* type) in any window of alert_cooldown = 3600 seconds, counted from the
\* last approval; the cooldowns of the buy and the sell alerts of a symbol,
\* and those of different symbols, do not touch each other.
C37_CooldownPerKey == [][C37_OncePerWindow /\ C37_KeysAreIndependent]_vars

\* the sell alert of a symbol has just been approved while its buy alert
\* and the buy alert of the other symbol are half a cooldown old
C37_Witness ==
    /\ InMonitor /\ mpc = "idle"
    /\ scan_signals # <<>>
    /\ scan_signals[1].sell_signal
    /\ last_alerts[<<scan_signals[1].symbol, "sell">>] = 0
    /\ last_alerts[<<scan_signals[1].symbol, "buy">>] = alert_cooldown \div 2
    /\ \E s \in RangeOf(MonitorWatchlist) :
          /\ s # scan_signals[1].symbol
          /\ last_alerts[<<s, "buy">>] = alert_cooldown \div 2

\* the symbol is held and its entry is three days old or older
HeldThreeDays(s) ==
    /\ InMonitor
    /\ positions[s].status = "holding"
    /\ positions[s].entry_time # None
    /\ positions[s].entry_time >= ExitDays

\* a check of such a symbol that returns a result returns sell_signal
C36_TimeExitEveryCheck ==
    \A s \in RangeOf(MonitorWatchlist) :
        (HeldThreeDays(s) /\ mpc = "idle" /\ mpc' = "checked"
            /\ scan_signals' # <<>> /\ scan_signals'[1].symbol = s)
        => scan_signals'[1].sell_signal

\* C36: a held symbol whose entry time is three days old or older gets
\* sell_signal = True from every check, whatever its indicator values, and
\* it returns to status none in the end, as long as scans keep occurring and
\* alert sends come to succeed.
C36_TimeExitIsReached ==
    /\ [][C36_TimeExitEveryCheck]_vars
    /\ \A s \in RangeOf(MonitorWatchlist) :
          HeldThreeDays(s) ~> (positions[s].status = "none")

\* a symbol held for three days has just been checked on a row whose RSI is
\* under every exit level, and the result carries sell_signal
C36_Witness ==
    /\ InMonitor /\ mpc = "checked"
    /\ scan_signals # <<>>
    /\ HeldThreeDays(scan_signals[1].symbol)
    /\ scan_signals[1].rsi < EarlyExitRsi
    /\ scan_signals[1].sell_signal

SendFailures == PostOutcomes \ {"200"}

\* C39: send_telegram_alert always terminates, after at most 3 HTTP POST
\* attempts; it returns True exactly when an attempt received HTTP 200, and
\* False after the last failed attempt whatever the failure (429, 400,
\* another status, timeout, connection error, another exception); without
\* bot token or chat id it returns False and makes no request.
C39_SendTerminates ==
    /\ [](InTelegram =>
            /\ posts <= 3 /\ Len(response) = posts
            /\ (returned = <<TRUE>>) <=>
                   (\E k \in 1..Len(response) : response[k] = "200")
            /\ tpc = "done" <=> returned # <<>>
            /\ (tpc = "done" /\ ~configured) => (posts = 0 /\ returned = <<FALSE>>)
            /\ (tpc = "done" /\ configured) =>
                  /\ posts = attempt + 1
                  /\ returned = <<FALSE>> =>
                        /\ Last(response) \in SendFailures
                        /\ \/ attempt = 2
                           \/ (Last(response) = "400" /\ parse_mode # "HTML"))
    /\ <>(tpc = "done")

\* three posts failed, by rate limit, by a 400 that took the HTML out of the
\* payload and by timeout, and the call returned False
C39_Witness ==
    /\ InTelegram /\ tpc = "done"
    /\ posts = 3
    /\ returned = <<FALSE>>
    /\ response = <<"429", "400", "Timeout">>
    /\ payload # <<>>
    /\ payload[1].stripped

\* the loop threads inside _scan_all_stocks_auto
Scanning == {i \in 1..Len(loops) : loops[i] = "scanning"}

\* C38: at most one _auto_monitoring_loop thread scans the watchlist at any
\* time, over any sequence of start_monitoring and stop_monitoring calls: a
\* start while monitoring starts no second loop, and once stop_monitoring
\* has returned the loop it stopped makes no further scan, also when
\* monitoring is started again.
C38_OneScanningLoop ==
    [][InLoops =>
          /\ Cardinality(Scanning') <= 1
          /\ \A i \in 1..Len(loops) :
                (loops[i] = "test" /\ loops'[i] = "scanning")
                    => (i = Len(loops) /\ is_monitoring)]_vars

\* the values the second row of the frame was computed from
SecondRowValues ==
    [Close |-> data[2].Close, PrevClose |-> data[1].Close, RSI |-> data[2].RSI,
     Williams_R |-> data[2].Williams_R, Volume_Ratio |-> data[2].Volume_Ratio,
     MA25_Ratio |-> data[2].MA25_Ratio]

\* the signal columns of the monitor are those of the balanced back-test
C40_SameSignalColumns ==
    (InIndicators /\ strategy_mode = "balanced" /\ Len(data) = 2) =>
        /\ MonitorParameters = SetupBnfParameters("balanced")
        /\ MonitorBuySignal(SecondRowValues) = data[2].BNF_Buy_Signal
        /\ MonitorSellSignal(SecondRowValues) = data[2].BNF_Sell_Signal

\* C40: the monitor uses the logic of the back-test: on every bar series its
\* BNF_Buy_Signal and BNF_Sell_Signal columns are those of the back-test
\* under the balanced preset, and its exit decision for a held position is
\* the back-test's: the sell flag, or held for the maximum of 3 days.
C40_MonitorMatchesBacktest ==
    /\ C40_SameSignalColumns
    /\ (InIndicators /\ strategy_mode = "balanced" /\ Len(data) = 2) =>
          \A days_held \in 0..max_holding_days :
              ExitRule(data[2], days_held) = BacktestExit(data[2], days_held)

====
